---------------------------- MODULE Spec2Model ----------------------------
(***************************************************************************)
(* Model of the multi-subgraph partitioned-execution scheduler of FBF-TF   *)
(* (a TensorFlow Lite fork): tflite::Subgraph (AllocateTensors, Invoke,    *)
(* ResizeInputTensor, AddNodeWithParameters, ModifyGraphWithDelegate and   *)
(* the delegate undo/redo machinery) and tflite::Interpreter (the GPU      *)
(* walk over the subgraphs with the tensor bridge connect/connectAdd, and  *)
(* delegate application over all subgraphs).                               *)
(*                                                                         *)
(* Every C++ method is an operator from a subgraph record (and arguments)  *)
(* to a result record [g, st, ...]; an action applies one public method    *)
(* as a whole and stores what the call returned in `last`.                 *)
(***************************************************************************)
EXTENDS Integers, Sequences, FiniteSets, TLC

VARIABLES
  subgraphs_,             \* Interpreter::subgraphs_ : index -> Subgraph
  used_tensor_and_index,  \* Interpreter::used_tensor_and_index
  heap,                   \* contents of the tensor buffers, by buffer id
  last,                   \* the last API call: name, status, event trace
  handoff,                \* the CPU and GPU workers at the Shared-Context Queue
  merge,                  \* one call of ConcatContext: its tensors and locals
  worker                  \* one Worker, its jobs and the position of its thread

vars == <<subgraphs_, used_tensor_and_index, heap, last, handoff, merge,
          worker>>

-----------------------------------------------------------------------------
(* Bounds of the model *)

MaxNodes == 2        \* nodes AddNodeWithParameters may add to the primary subgraph
NumSubgraphs == 3    \* subgraphs of the interpreter in the bridge specification
MaxDim == 2          \* tensor dims range over 1..MaxDim
MaxDelegates == 2    \* length bound of delegates_applied_
ValMod == 2          \* tensor contents are abstract values 0..ValMod-1
MaxJobs == 2         \* jobs given to the Worker
MaxUsed == 3         \* Interpreter::Invoke is not called once the used list is this long

NumTensors == 6      \* tensors of a subgraph
TensorIds == 0..(NumTensors - 1)
SubgraphIds == 0..(NumSubgraphs - 1)

-----------------------------------------------------------------------------
(* TfLiteStatus, subgraph states, allocation types *)

kTfLiteOk == "kTfLiteOk"
kTfLiteError == "kTfLiteError"
kTfLiteDelegateError == "kTfLiteDelegateError"
kTfLiteApplicationError == "kTfLiteApplicationError"
\* not a TfLiteStatus: the call dereferenced a null data pointer and the
\* process died (memcpy or a kernel write through a null pointer)
Crashed == "Crashed"

kStateUninvokable == "kStateUninvokable"
kStateInvokable == "kStateInvokable"
kStateInvokableAndImmutable == "kStateInvokableAndImmutable"

kTfLiteArenaRw == "kTfLiteArenaRw"
kTfLiteDynamic == "kTfLiteDynamic"
kTfLiteMmapRo == "kTfLiteMmapRo"
kTfLiteArenaRwPersistent == "kTfLiteArenaRwPersistent"

kTfLiteOptionalTensor == -1
sizeofFloat == 4
nullptr == "nullptr"

NullPtr == <<>>
Buf(s, t) == <<s, t>>
BufferIds == SubgraphIds \X TensorIds

R(g, st) == [g |-> g, st |-> st]

\* the element of a singleton set: Only({e : x \in {v}}) is e with x naming
\* the value of v, which is computed once
Only(S) == CHOOSE x \in S : TRUE

Max(a, b) == IF a > b THEN a ELSE b

RECURSIVE SeqProd(_)
SeqProd(s) == IF s = <<>> THEN 1 ELSE Head(s) * SeqProd(Tail(s))

SeqToSet(s) == {s[i] : i \in 1..Len(s)}

RECURSIVE SeqMax(_)
SeqMax(s) == IF s = <<>> THEN 0 ELSE Max(Head(s), SeqMax(Tail(s)))

\* Subgraph::BytesRequired for a float tensor (overflow is out of reach of
\* the dims of the model)
BytesRequired(dims) == sizeofFloat * SeqProd(dims)

-----------------------------------------------------------------------------
(* The operator kernels and delegates the model is exercised with.  They   *)
(* are external collaborators: each is fixed by what its Prepare and       *)
(* Invoke do to the tensors.                                               *)

\* node kinds (TfLiteRegistration)
KConv == "CONV_2D"        \* static shapes, prepare and invoke succeed
KAdd == "ADD"             \* two inputs, static shapes
KDyn == "WHERE"           \* output is a dynamic tensor, sized at invoke
KStrict == "RESHAPE"      \* prepare fails when its input has dims >= BigDim
KBadInvoke == "CUSTOM"    \* invoke fails
KDelegate == "DELEGATE"   \* fused node created for a delegate
KConcat == "CONCATENATION"  \* joins its inputs along the channel dimension

BigDim == 2

\* delegates (TfLiteDelegate*)
\* flags = 0 (static tensors only); Prepare replaces the nodes it supports
\* and then fails when the graph input has dims >= BigDim
DStatic == "DStatic"
\* kTfLiteDelegateFlagsAllowDynamicTensors; Prepare fails, before replacing
\* anything, when the plan holds a CUSTOM op
DDynamic == "DDynamic"
\* flags = 0; Prepare succeeds, its fused kernel fails to prepare
DBadKernel == "DBadKernel"
DelegateIds == {DStatic, DDynamic, DBadKernel}

AllowDynamicTensors(d) == d = DDynamic
Supports(d, kind) == kind = KConv

-----------------------------------------------------------------------------
(* Tensors and nodes *)

\* TfLiteTensor as SetTensorParametersReadWrite leaves it: a float arena
\* tensor with no buffer yet
NewTensor(dims) ==
  [dims |-> dims, bytes |-> BytesRequired(dims), data |-> NullPtr,
   allocation_type |-> kTfLiteArenaRw, delegate |-> nullptr]

\* TfLiteNode with its TfLiteRegistration; replaces is the fused node's
\* TfLiteDelegateParams::nodes_to_replace
NewNode(kind, inputs, outputs, builtin) ==
  [kind |-> kind, inputs |-> inputs, outputs |-> outputs,
   delegate |-> nullptr, builtin |-> builtin, replaces |-> <<>>]

NodeAt(g, node_index) == g.nodes_and_registration_[node_index + 1]

\* mutant of PlanAt: the plan read from its end
PlanAtReversed(plan, execution_plan_index) ==
  plan[Len(plan) - execution_plan_index]
PlanAt(plan, execution_plan_index) == plan[execution_plan_index + 1]

\* Subgraph as its constructor and the model builder (AddTensors,
\* SetTensorParametersReadWrite, SetInputs, SetOutputs) leave it
NewSubgraph(id, inputs, outputs, dims) ==
  [id |-> id,
   state_ |-> kStateUninvokable,
   consistent_ |-> TRUE,
   nodes_and_registration_ |-> <<>>,
   execution_plan_ |-> <<>>,
   pre_delegation_execution_plan_ |-> <<>>,
   delegates_applied_ |-> <<>>,
   delegates_undone_ |-> FALSE,
   next_execution_plan_index_to_prepare_ |-> 0,
   next_execution_plan_index_to_plan_allocation_ |-> 0,
   has_dynamic_tensors_ |-> FALSE,
   tensor_resized_since_op_invoke_ |-> FALSE,
   tensors_ |-> [t \in TensorIds |-> NewTensor(dims)],
   inputs_ |-> inputs,
   outputs_ |-> outputs,
   variables_ |-> <<>>,
   use_distribute_strategy |-> FALSE,
   partitioning_plan |-> 0,
   conv_filter_before_modification |-> 0,
   memory_planner_ |-> FALSE,
   has_nonpersistent_memory |-> FALSE,
   \* history: the kernel calls made during the API call in progress
   events |-> <<>>,
   \* history: a node was added, an input's dims were changed or the inputs
   \* or outputs were set, and no AllocateTensors has returned kTfLiteOk since
   mutated |-> FALSE,
   \* history: the dims of the tensors the channel-ratio rewrite changed, as
   \* its first application left them
   rewritten |-> <<>>]

HasDynamicTensor(g, tensorList) ==
  \E i \in 1..Len(tensorList) :
     /\ tensorList[i] # kTfLiteOptionalTensor
     /\ g.tensors_[tensorList[i]].allocation_type = kTfLiteDynamic

-----------------------------------------------------------------------------
(* Tensor resizing *)

ResizeTensorImpl(g, t, new_size) ==
  LET tensor == g.tensors_[t] IN
  IF tensor.allocation_type \in {kTfLiteArenaRw, kTfLiteDynamic}
  THEN LET resized == [tensor EXCEPT
                         !.bytes = BytesRequired(new_size),
                         !.dims = new_size,
                         \* TfLiteTensorRealloc gives a dynamic tensor its
                         \* heap buffer; an arena tensor is reset
                         !.data = IF tensor.allocation_type = kTfLiteArenaRw
                                  THEN NullPtr ELSE Buf(g.id, t)]
       IN R([g EXCEPT !.tensors_[t] = resized,
                      !.tensor_resized_since_op_invoke_ =
                          @ \/ (tensor.dims # new_size)],
            kTfLiteOk)
  ELSE R(g, kTfLiteError)

\* the TfLiteContext::ResizeTensor entry the kernels call
ResizeTensor(g, t, new_size) ==
  IF g.tensors_[t].data # NullPtr /\ g.tensors_[t].dims = new_size
  THEN R(g, kTfLiteOk)
  ELSE ResizeTensorImpl(g, t, new_size)

\* kernel_util SetTensorToDynamic
SetTensorToDynamic(g, t) ==
  IF g.tensors_[t].allocation_type = kTfLiteDynamic THEN g
  ELSE [g EXCEPT !.tensors_[t].allocation_type = kTfLiteDynamic,
                 !.tensors_[t].data = NullPtr]

-----------------------------------------------------------------------------
(* The operator kernels *)

InDims(g, node) == g.tensors_[node.inputs[1]].dims

\* op_reg.prepare of the node's kernel
KernelPrepare(g, node) ==
  CASE node.kind = KDyn -> R(SetTensorToDynamic(g, node.outputs[1]), kTfLiteOk)
    [] node.kind = KStrict /\ InDims(g, node)[1] >= BigDim -> R(g, kTfLiteError)
    [] node.kind = KDelegate /\ node.delegate = DBadKernel -> R(g, kTfLiteError)
    [] OTHER -> ResizeTensor(g, node.outputs[1], InDims(g, node))

\* Subgraph::OpPrepare (the kernels of the model are all resolved)
OpPrepare(g, node_index, execution_plan_index) ==
  Only({R([p.g EXCEPT !.events = Append(@, [e |-> "prepare",
                                            node |-> node_index,
                                            idx |-> execution_plan_index,
                                            ok |-> p.st = kTfLiteOk])],
          p.st) :
        p \in {KernelPrepare(g, NodeAt(g, node_index))}})

-----------------------------------------------------------------------------
(* The memory planner (ArenaPlanner), by what it does to the tensors *)

Min(a, b) == IF a < b THEN a ELSE b

\* tensors the arena has planned once the nodes up to plan index last_node
\* are planned: the graph inputs (at node 0) and the outputs of those nodes
PlannedUpTo(g, last_node) ==
  {t \in TensorIds :
     \/ t \in SeqToSet(g.inputs_)
     \/ \E i \in 0..Min(last_node, Len(g.execution_plan_) - 1) :
           t \in SeqToSet(NodeAt(g, PlanAt(g.execution_plan_, i)).outputs)}

ExecuteAllocations(g, first_node, last_node) ==
  LET planned == {t \in PlannedUpTo(g, last_node) :
                    g.tensors_[t].allocation_type = kTfLiteArenaRw} IN
  R([g EXCEPT !.tensors_ = [t \in TensorIds |->
                 IF t \in planned THEN [@[t] EXCEPT !.data = Buf(g.id, t)]
                 ELSE @[t]],
              !.has_nonpersistent_memory = @ \/ (planned # {})],
    kTfLiteOk)

ResetAllocations(g) == R(g, kTfLiteOk)

ResetAllocationsAfter(g, node) ==
  LET kept == PlannedUpTo(g, node) IN
  R([g EXCEPT !.tensors_ = [t \in TensorIds |->
                 IF t \notin kept /\ @[t].allocation_type = kTfLiteArenaRw
                 THEN [@[t] EXCEPT !.data = NullPtr] ELSE @[t]]],
    kTfLiteOk)

ReleaseNonPersistentMemory(g) ==
  IF ~g.memory_planner_ THEN R(g, kTfLiteOk)
  ELSE R([g EXCEPT !.tensors_ = [t \in TensorIds |->
                     IF @[t].allocation_type = kTfLiteArenaRw
                     THEN [@[t] EXCEPT !.data = NullPtr] ELSE @[t]],
                   !.has_nonpersistent_memory = FALSE],
         kTfLiteOk)

AcquireNonPersistentMemory(g) ==
  ExecuteAllocations(g, 0, g.next_execution_plan_index_to_plan_allocation_ - 1).g

-----------------------------------------------------------------------------
(* Preparation *)

RECURSIVE PrepareLoop(_, _, _, _)
\* mutant of PrepareLoop: the loop goes on past a node with a dynamic output
\* and has_dynamic_tensors_ is left as it is
PrepareLoopPastDynamic(g, execution_plan_index, plan, last_prepared) ==
  IF execution_plan_index >= Len(plan)
  THEN [g |-> g, st |-> kTfLiteOk, last |-> last_prepared]
  ELSE LET node_index == PlanAt(plan, execution_plan_index) IN
       Only({IF p.st # kTfLiteOk
             THEN [g |-> p.g, st |-> kTfLiteError, last |-> last_prepared]
             ELSE PrepareLoop(p.g, execution_plan_index + 1, plan,
                              execution_plan_index) :
             p \in {OpPrepare(g, node_index, execution_plan_index)}})

\* the loop of PrepareOpsStartingAt, which ends at the first node with a
\* dynamic output
PrepareLoop(g, execution_plan_index, plan, last_prepared) ==
  IF execution_plan_index >= Len(plan)
  THEN [g |-> g, st |-> kTfLiteOk, last |-> last_prepared]
  ELSE LET node_index == PlanAt(plan, execution_plan_index) IN
       Only({IF p.st # kTfLiteOk
             THEN [g |-> p.g, st |-> kTfLiteError, last |-> last_prepared]
             ELSE IF HasDynamicTensor(p.g, NodeAt(g, node_index).outputs)
             THEN [g |-> [p.g EXCEPT !.has_dynamic_tensors_ = TRUE],
                   st |-> kTfLiteOk, last |-> execution_plan_index]
             ELSE PrepareLoop(p.g, execution_plan_index + 1, plan,
                              execution_plan_index) :
             p \in {OpPrepare(g, node_index, execution_plan_index)}})

\* last_prepared is the caller's *last_execution_plan_index_prepared, which
\* the loop overwrites only when it prepares a node
PrepareOpsStartingAt(g, first_execution_plan_index, plan, last_prepared) ==
  PrepareLoop(IF first_execution_plan_index = 0
              THEN [g EXCEPT !.has_dynamic_tensors_ = FALSE] ELSE g,
              first_execution_plan_index, plan, last_prepared)

\* mutant of PrepareOpsAndTensors: a failed preparation is not reported
PrepareOpsAndTensorsHidingFailure(g) ==
  Only({IF p.st # kTfLiteOk THEN R(p.g, kTfLiteOk)
        ELSE ExecuteAllocations(
               [p.g EXCEPT !.next_execution_plan_index_to_prepare_ = p.last + 1,
                           !.next_execution_plan_index_to_plan_allocation_ =
                               p.last + 1],
               p.g.next_execution_plan_index_to_plan_allocation_, p.last) :
        p \in {PrepareOpsStartingAt([g EXCEPT !.memory_planner_ = TRUE],
                                    g.next_execution_plan_index_to_prepare_,
                                    g.execution_plan_, 0)}})

PrepareOpsAndTensors(g) ==
  Only({IF p.st # kTfLiteOk THEN R(p.g, p.st)
        ELSE Only({IF a.st # kTfLiteOk THEN a
                   ELSE R([a.g EXCEPT
                             !.next_execution_plan_index_to_plan_allocation_ =
                                 p.last + 1],
                          kTfLiteOk) :
                   a \in {ExecuteAllocations(
                            [p.g EXCEPT
                               !.next_execution_plan_index_to_prepare_ =
                                   p.last + 1],
                            p.g.next_execution_plan_index_to_plan_allocation_,
                            p.last)}}) :
        p \in {PrepareOpsStartingAt([g EXCEPT !.memory_planner_ = TRUE],
                                    g.next_execution_plan_index_to_prepare_,
                                    g.execution_plan_, 0)}})

-----------------------------------------------------------------------------
(* Graph construction *)

CheckTensorIndices(g, indices) ==
  IF \E i \in 1..Len(indices) :
       /\ indices[i] # kTfLiteOptionalTensor
       /\ (indices[i] < 0 \/ indices[i] >= NumTensors)
  THEN R([g EXCEPT !.consistent_ = FALSE], kTfLiteError)
  ELSE R(g, kTfLiteOk)

CheckInputAndOutputForOverlap(g, input_indices, output_indices) ==
  IF SeqToSet(input_indices) \cap SeqToSet(output_indices) # {}
  THEN R([g EXCEPT !.consistent_ = FALSE], kTfLiteError)
  ELSE R(g, kTfLiteOk)

\* builtin stands for builtin_data != nullptr; the result's node_index is
\* *node_index
AddNodeWithParameters(g, inputs, outputs, builtin, kind) ==
  IF g.state_ = kStateInvokableAndImmutable
  THEN [g |-> g, st |-> kTfLiteError, node_index |-> -1]
  ELSE
    LET new_node_index == Len(g.nodes_and_registration_) IN
    Only({
      IF c1.st # kTfLiteOk THEN [g |-> c1.g, st |-> c1.st, node_index |-> -1]
      ELSE Only({
        IF c2.st # kTfLiteOk
        THEN [g |-> c2.g, st |-> c2.st, node_index |-> -1]
        ELSE Only({
          IF builtin /\ c3.st # kTfLiteOk
          THEN [g |-> c3.g, st |-> c3.st, node_index |-> -1]
          ELSE [g |-> [c2.g EXCEPT
                         !.nodes_and_registration_ =
                             Append(@, NewNode(kind, inputs, outputs, builtin)),
                         !.execution_plan_ = Append(@, new_node_index)],
                st |-> kTfLiteOk, node_index |-> new_node_index] :
          c3 \in {CheckInputAndOutputForOverlap(c2.g, inputs, outputs)}}) :
        c2 \in {CheckTensorIndices(c1.g, outputs)}}) :
      c1 \in {CheckTensorIndices([g EXCEPT !.state_ = kStateUninvokable,
                                            !.mutated = TRUE],
                                 inputs)}})

SetInputs(g, inputs) ==
  Only({IF c.st # kTfLiteOk THEN c
        ELSE R([g EXCEPT !.inputs_ = inputs, !.mutated = TRUE], kTfLiteOk) :
        c \in {CheckTensorIndices(g, inputs)}})

SetOutputs(g, outputs) ==
  Only({IF c.st # kTfLiteOk THEN c
        ELSE R([g EXCEPT !.outputs_ = outputs, !.mutated = TRUE], kTfLiteOk) :
        c \in {CheckTensorIndices(g, outputs)}})

\* setting the variables changes neither state_ nor the plan
SetVariables(g, variables) ==
  Only({IF c.st # kTfLiteOk THEN c
        ELSE R([g EXCEPT !.variables_ = variables], kTfLiteOk) :
        c \in {CheckTensorIndices(g, variables)}})

-----------------------------------------------------------------------------
(* Delegates *)

\* graph_info PartitionGraphIntoIndependentNodeSubsets on a chain of nodes:
\* the maximal runs of plan entries that are all claimed or all unclaimed
RECURSIVE PartitionRuns(_, _, _)
PartitionRuns(plan, nodes_to_replace, subsets) ==
  IF plan = <<>> THEN subsets
  ELSE LET n == Head(plan)
           type == IF n \in nodes_to_replace THEN "kTfPartition"
                   ELSE "kTfNonPartition"
           k == Len(subsets)
       IN IF k > 0 /\ subsets[k].type = type
          THEN PartitionRuns(Tail(plan), nodes_to_replace,
                 [subsets EXCEPT ![k].nodes = Append(@, n)])
          ELSE PartitionRuns(Tail(plan), nodes_to_replace,
                 Append(subsets, [type |-> type, nodes |-> <<n>>]))

PartitionGraphIntoIndependentNodeSubsets(g, nodes_to_replace) ==
  PartitionRuns(g.execution_plan_, nodes_to_replace, <<>>)

RECURSIVE ReplaceLoop(_, _, _)
ReplaceLoop(g, node_subsets, delegate) ==
  IF node_subsets = <<>> THEN R(g, kTfLiteOk)
  ELSE
    LET node_subset == Head(node_subsets) IN
    IF node_subset.type = "kTfNonPartition"
    THEN ReplaceLoop([g EXCEPT !.execution_plan_ = @ \o node_subset.nodes],
                     Tail(node_subsets), delegate)
    ELSE
      LET input_tensors == NodeAt(g, Head(node_subset.nodes)).inputs
          output_tensors ==
            NodeAt(g, node_subset.nodes[Len(node_subset.nodes)]).outputs
          out == output_tensors[1]
      IN Only({
           IF a.st # kTfLiteOk THEN R(a.g, a.st)
           ELSE IF a.g.tensors_[out].delegate \notin {nullptr, delegate}
           THEN R(a.g, kTfLiteError)
           ELSE ReplaceLoop(
                  [a.g EXCEPT
                     !.tensors_[out].delegate = delegate,
                     !.nodes_and_registration_[a.node_index + 1].delegate =
                         delegate,
                     !.nodes_and_registration_[a.node_index + 1].replaces =
                         node_subset.nodes],
                  Tail(node_subsets), delegate) :
           a \in {AddNodeWithParameters(g, input_tensors, output_tensors,
                                        TRUE, KDelegate)}})

ReplaceNodeSubsetsWithDelegateKernels(g, nodes_to_replace, delegate) ==
  IF nodes_to_replace = {} THEN R(g, kTfLiteOk)
  ELSE ReplaceLoop([g EXCEPT !.execution_plan_ = <<>>],
                   PartitionGraphIntoIndependentNodeSubsets(g, nodes_to_replace),
                   delegate)

GraphInputIsBig(g) ==
  g.inputs_ # <<>> /\ g.tensors_[g.inputs_[1]].dims[1] >= BigDim

\* delegate->Prepare(&context_, delegate)
DelegatePrepare(g, delegate) ==
  LET nodes_to_replace ==
        {n \in SeqToSet(g.execution_plan_) : Supports(delegate, NodeAt(g, n).kind)}
      has_custom == \E i \in 1..Len(g.execution_plan_) :
                       NodeAt(g, g.execution_plan_[i]).kind = KBadInvoke
  IN IF delegate = DDynamic /\ has_custom THEN R(g, kTfLiteError)
     ELSE Only({IF delegate = DStatic /\ GraphInputIsBig(g)
                THEN R(r.g, kTfLiteError) ELSE r :
                r \in {ReplaceNodeSubsetsWithDelegateKernels(
                         g, nodes_to_replace, delegate)}})

\* UndoAllDelegates that keeps the delegated execution plan
UndoAllDelegatesKeepingPlan(g) ==
  IF g.pre_delegation_execution_plan_ = <<>> THEN R(g, kTfLiteOk)
  ELSE R([g EXCEPT !.pre_delegation_execution_plan_ = <<>>,
                   !.state_ = kStateUninvokable,
                   !.delegates_undone_ = TRUE],
         kTfLiteOk)

UndoAllDelegates(g) ==
  IF g.pre_delegation_execution_plan_ = <<>> THEN R(g, kTfLiteOk)
  ELSE LET max_retained_node_index == SeqMax(g.pre_delegation_execution_plan_) IN
       R([g EXCEPT
            !.execution_plan_ = g.pre_delegation_execution_plan_,
            !.pre_delegation_execution_plan_ = <<>>,
            !.nodes_and_registration_ =
                SubSeq(@, 1, max_retained_node_index + 1),
            !.state_ = kStateUninvokable,
            !.delegates_undone_ = TRUE],
         kTfLiteOk)

-----------------------------------------------------------------------------
(* Allocation and delegate application *)

RECURSIVE AllocateTensors(_)
RECURSIVE RedoAllDelegates(_)
RECURSIVE ApplyDelegates(_, _)
RECURSIVE ModifyGraphWithDelegate(_, _)
RECURSIVE EnsureMemoryAllocations(_)
RECURSIVE RemoveAllDelegates(_)

\* a variant without the early return for a subgraph that is invokable
AllocateTensorsAlways(g) ==
  IF ~g.consistent_ THEN R(g, kTfLiteError)
  ELSE
    Only({
      IF redo.st # kTfLiteOk THEN redo
      ELSE Only({
        IF p.st # kTfLiteOk THEN p
        ELSE R([p.g EXCEPT !.state_ = kStateInvokable,
                           !.mutated = FALSE], kTfLiteOk) :
        p \in {PrepareOpsAndTensors(
                 [redo.g EXCEPT
                    !.next_execution_plan_index_to_prepare_ = 0,
                    !.next_execution_plan_index_to_plan_allocation_ = 0])}}) :
      redo \in {RedoAllDelegates(g)}})

AllocateTensors(g) ==
  IF ~g.consistent_ THEN R(g, kTfLiteError)
  ELSE
    Only({
      IF redo.st # kTfLiteOk THEN redo
      ELSE IF redo.g.state_ # kStateUninvokable
              /\ ~HasDynamicTensor(redo.g, redo.g.inputs_)
      THEN IF redo.g.memory_planner_ /\ ~redo.g.has_nonpersistent_memory
           THEN R([AcquireNonPersistentMemory(redo.g) EXCEPT
                     !.mutated = FALSE], kTfLiteOk)
           ELSE R([redo.g EXCEPT !.mutated = FALSE], kTfLiteOk)
      ELSE Only({
        IF reset.st # kTfLiteOk THEN reset
        ELSE Only({
          IF p.st # kTfLiteOk THEN p
          ELSE R([p.g EXCEPT !.state_ = kStateInvokable,
                             !.mutated = FALSE], kTfLiteOk) :
          p \in {PrepareOpsAndTensors(reset.g)}}) :
        reset \in {IF redo.g.memory_planner_
                   THEN ResetAllocations(
                          [redo.g EXCEPT
                             !.next_execution_plan_index_to_prepare_ = 0,
                             !.next_execution_plan_index_to_plan_allocation_ = 0])
                   ELSE R([redo.g EXCEPT
                             !.next_execution_plan_index_to_prepare_ = 0,
                             !.next_execution_plan_index_to_plan_allocation_ = 0],
                          kTfLiteOk)}}) :
      redo \in {RedoAllDelegates(g)}})

\* the loop of RedoAllDelegates over delegates_to_apply
ApplyDelegates(g, delegates_to_apply) ==
  IF delegates_to_apply = <<>> THEN R(g, kTfLiteOk)
  ELSE Only({IF m.st # kTfLiteOk THEN m
             ELSE ApplyDelegates(m.g, Tail(delegates_to_apply)) :
             m \in {ModifyGraphWithDelegate(g, Head(delegates_to_apply))}})

RedoAllDelegates(g) ==
  IF ~g.delegates_undone_ THEN R(g, kTfLiteOk)
  ELSE ApplyDelegates([g EXCEPT !.delegates_undone_ = FALSE,
                                !.delegates_applied_ = <<>>],
                      g.delegates_applied_)

\* a variant that allocates nothing
EnsureMemoryAllocationsSkipped(g) == R(g, kTfLiteOk)

EnsureMemoryAllocations(g) ==
  Only({IF a.st # kTfLiteOk THEN a
        ELSE IF a.g.state_ # kStateInvokable THEN R(a.g, kTfLiteError)
        ELSE a :
        a \in {AllocateTensors(IF g.memory_planner_
                               THEN [g EXCEPT !.state_ = kStateUninvokable]
                               ELSE g)}})

RemoveAllDelegates(g) ==
  Only({IF u.st # kTfLiteOk THEN u
        ELSE EnsureMemoryAllocations([u.g EXCEPT !.delegates_applied_ = <<>>,
                                                 !.delegates_undone_ = FALSE]) :
        u \in {UndoAllDelegates(g)}})

\* the lambda reset_delegation_if_not_ok of ModifyGraphWithDelegate
reset_delegation_if_not_ok(g, status) ==
  IF status # kTfLiteOk
  THEN Only({IF r.st # kTfLiteOk THEN r ELSE R(r.g, kTfLiteDelegateError) :
             r \in {RemoveAllDelegates(
                      [g EXCEPT !.events =
                          Append(@, [e |-> "rollback", node |-> -1,
                                     idx |-> -1, ok |-> TRUE])])}})
  ELSE R(g, kTfLiteOk)

\* ModifyGraphWithDelegate from the point where the delegate's Prepare runs
DelegateAndReallocate(g, delegate, was_invokable_before_delegate) ==
  LET applied(gg) == R([gg EXCEPT !.delegates_applied_ = Append(@, delegate)],
                       kTfLiteOk)
  IN Only({
       IF r1.st # kTfLiteOk THEN r1
       ELSE IF ~AllowDynamicTensors(delegate)
       THEN Only({
              IF r2.st # kTfLiteOk THEN r2
              ELSE applied([r2.g EXCEPT !.state_ = kStateInvokableAndImmutable]) :
              r2 \in {Only({reset_delegation_if_not_ok(e.g, e.st) :
                            e \in {EnsureMemoryAllocations(
                                     [r1.g EXCEPT
                                        !.state_ = kStateUninvokable])}})}})
       ELSE IF was_invokable_before_delegate
       THEN Only({
              IF r2.st # kTfLiteOk THEN r2 ELSE applied(r2.g) :
              r2 \in {Only({reset_delegation_if_not_ok(e.g, e.st) :
                            e \in {EnsureMemoryAllocations(r1.g)}})}})
       ELSE applied(r1.g) :
       r1 \in {Only({reset_delegation_if_not_ok(prep.g, prep.st) :
                     prep \in {DelegatePrepare(g, delegate)}})}})

\* IEEE 754 single precision for positive values, as the float arithmetic
\* of the rewrite needs it.  A value is m / 2^k with integers m and k; a
\* float has at most 24 significant bits, and results are rounded to the
\* nearest float, ties to the even one.
RECURSIVE Pow2(_)
Pow2(n) == IF n <= 0 THEN 1 ELSE 2 * Pow2(n - 1)

RoundHalfEven(p, d) ==
  LET q == p \div d
      rem == p % d
  IN IF 2 * rem < d THEN q
     ELSE IF 2 * rem > d THEN q + 1
     ELSE IF q % 2 = 0 THEN q ELSE q + 1

\* how often x > 0 is doubled until it reaches bound, and how often it is
\* halved until it is below bound
RECURSIVE ShiftUp(_, _)
ShiftUp(x, bound) == IF x >= bound THEN 0 ELSE 1 + ShiftUp(2 * x, bound)
RECURSIVE ShiftDown(_, _)
ShiftDown(x, bound) == IF x < bound THEN 0 ELSE 1 + ShiftDown(x \div 2, bound)

\* (float)a / b for integers 0 < a < b
FloatDiv(a, b) ==
  LET k == ShiftUp(a, b * Pow2(23))
  IN [m |-> RoundHalfEven(a * Pow2(k), b), k |-> k]

\* n * f for an int n >= 0 and a float f: n is converted to float and the
\* product is a float
FloatMul(n, f) ==
  LET p == n * f.m
      s == ShiftDown(p, Pow2(24))
  IN [m |-> RoundHalfEven(p, Pow2(s)) * Pow2(s), k |-> f.k]

\* ceil, converted to int
Ceil(f) == (f.m + Pow2(f.k) - 1) \div Pow2(f.k)

\* ceil(conv_filter_before_modification*((float)partitioning_plan/10))
ModifiedValue(filters, plan) == Ceil(FloatMul(filters, FloatDiv(plan, 10)))

\* what the rewrite has made of the filter and the bias of the CONV_2D nodes
\* and of the second input of the CONCATENATION nodes
IsSplitNode(node) == node.kind \in {KConv, KConcat}
SplitDims(g) ==
  LET nodes == SelectSeq(g.nodes_and_registration_, IsSplitNode) IN
  [i \in 1..Len(nodes) |->
     IF nodes[i].kind = KConv
     THEN <<g.tensors_[nodes[i].inputs[2]].dims,
            g.tensors_[nodes[i].inputs[3]].dims,
            g.tensors_[nodes[i].inputs[3]].bytes>>
     ELSE <<g.tensors_[nodes[i].inputs[2]].dims>>]

\* the loop of the rewrite over nodes_and_registration_, from node_index on
RECURSIVE RewriteLoop(_, _)
RewriteLoop(g, node_index) ==
  IF node_index >= Len(g.nodes_and_registration_) THEN R(g, kTfLiteOk)
  ELSE
    LET node == NodeAt(g, node_index) IN
    IF node.kind = KConv
    THEN LET tensor_filter == node.inputs[2]
             tensor_bias == node.inputs[3]
             before == g.tensors_[tensor_filter].dims[1]
             modified_value == ModifiedValue(before, g.partitioning_plan)
             dims == [g.tensors_[tensor_filter].dims EXCEPT
                        ![1] = modified_value]
         IN RewriteLoop(
              [g EXCEPT
                 !.conv_filter_before_modification = before,
                 !.tensors_[tensor_filter].dims = dims,
                 !.tensors_[tensor_bias].dims[1] = modified_value,
                 !.tensors_[tensor_filter].bytes =
                     sizeofFloat * SeqProd(SubSeq(dims, 1, 4)),
                 !.tensors_[tensor_bias].bytes = modified_value * sizeofFloat],
              node_index + 1)
    ELSE IF node.kind = KConcat
    THEN IF g.conv_filter_before_modification <= 0 THEN R(g, kTfLiteError)
         ELSE LET tensor_filter == node.inputs[2]
                  modified_value ==
                    g.conv_filter_before_modification
                      - ModifiedValue(g.conv_filter_before_modification,
                                      g.partitioning_plan)
                  ary == [g.tensors_[tensor_filter].dims EXCEPT
                            ![4] = @ + modified_value]
              IN RewriteLoop(
                   ResizeTensorImpl(SetTensorToDynamic(g, tensor_filter),
                                    tensor_filter, ary).g,
                   node_index + 1)
    ELSE RewriteLoop(g, node_index + 1)

\* the runtime filter modification of ModifyGraphWithDelegate
ChannelRatioRewrite(g) ==
  IF ~g.use_distribute_strategy THEN R(g, kTfLiteOk)
  ELSE Only({IF r.st # kTfLiteOk THEN r
             ELSE R([r.g EXCEPT !.rewritten =
                        IF @ = <<>> THEN <<SplitDims(r.g)>> ELSE @],
                    kTfLiteOk) :
             r \in {RewriteLoop(g, 0)}})

\* PrepareForDelegate without the preparation that looks for dynamic-sized
\* tensors
PrepareForDelegateUnprepared(g, delegate) ==
  DelegateAndReallocate(
    IF g.delegates_applied_ = <<>>
    THEN [g EXCEPT !.pre_delegation_execution_plan_ = g.execution_plan_]
    ELSE g,
    delegate, g.state_ = kStateInvokable)

\* ModifyGraphWithDelegate from the check of the delegate's flags on
PrepareForDelegate(g, delegate) ==
  LET remember(gg) ==
        IF gg.delegates_applied_ = <<>>
        THEN [gg EXCEPT !.pre_delegation_execution_plan_ = gg.execution_plan_]
        ELSE gg
  IN IF ~AllowDynamicTensors(delegate)
     THEN Only({
            IF w.st # kTfLiteOk THEN w
            ELSE Only({
              IF p.st # kTfLiteOk THEN R(p.g, p.st)
              ELSE IF p.g.has_dynamic_tensors_
              THEN Only({IF e.st # kTfLiteOk THEN e
                         ELSE R(e.g, kTfLiteApplicationError) :
                         e \in {EnsureMemoryAllocations(p.g)}})
              ELSE DelegateAndReallocate(remember(p.g), delegate,
                                         p.g.state_ = kStateInvokable) :
              p \in {PrepareOpsStartingAt(
                       [w.g EXCEPT !.state_ = kStateInvokable],
                       0, w.g.execution_plan_, 0)}}) :
            w \in {ChannelRatioRewrite(g)}})
     ELSE DelegateAndReallocate(remember(g), delegate,
                                g.state_ = kStateInvokable)

ModifyGraphWithDelegate(g, delegate) ==
  Only({IF redo.st # kTfLiteOk THEN redo
        ELSE IF redo.g.state_ = kStateInvokableAndImmutable
        THEN R(redo.g, kTfLiteApplicationError)
        ELSE PrepareForDelegate(redo.g, delegate) :
        redo \in {RedoAllDelegates(g)}})

\* a variant without the short-circuit for unchanged dims
ResizeInputTensorAlways(g, tensor_index, dims) ==
  LET delegates_applied == g.pre_delegation_execution_plan_ # <<>>
      graph_is_immutable == g.state_ = kStateInvokableAndImmutable
  IN IF graph_is_immutable /\ ~delegates_applied THEN R(g, kTfLiteError)
     ELSE IF ~(tensor_index < NumTensors /\ tensor_index >= 0)
     THEN R(g, kTfLiteError)
     ELSE Only({IF u.st # kTfLiteOk THEN u
                ELSE ResizeTensorImpl([u.g EXCEPT !.state_ = kStateUninvokable],
                                      tensor_index, dims) :
                u \in {IF graph_is_immutable THEN UndoAllDelegates(g)
                       ELSE R(g, kTfLiteOk)}})

\* the buffer a client hands to SetTensorParametersReadOnly for a tensor: it
\* lies in no subgraph's arena
ReadOnlyBuffer(tensor_index) == <<NumSubgraphs, tensor_index>>

\* TfLiteTensorReset: the tensor's data is freed and its dims, buffer, byte
\* size and allocation type are set; its delegate is kept
TfLiteTensorReset(tensor, dims, buffer, bytes, allocation_type) ==
  [tensor EXCEPT !.dims = dims, !.data = buffer, !.bytes = bytes,
                 !.allocation_type = allocation_type]

\* SetTensorParametersReadOnly without its check of an immutable graph
SetTensorParametersReadOnlyUnchecked(g, tensor_index, dims, bytes) ==
  IF ~(tensor_index < NumTensors /\ tensor_index >= 0)
  THEN R(g, kTfLiteError)
  ELSE IF BytesRequired(dims) # bytes THEN R(g, kTfLiteError)
  ELSE IF g.tensors_[tensor_index].dims = dims
  THEN R([g EXCEPT !.tensors_[tensor_index].data =
                       ReadOnlyBuffer(tensor_index),
                   !.tensors_[tensor_index].allocation_type = kTfLiteMmapRo],
         kTfLiteOk)
  ELSE R([g EXCEPT !.state_ = kStateUninvokable,
                   !.tensors_[tensor_index] =
                       TfLiteTensorReset(@, dims, ReadOnlyBuffer(tensor_index),
                                         bytes, kTfLiteMmapRo)],
         kTfLiteOk)

\* Subgraph::SetTensorParametersReadOnly (the tensors are all of one type)
SetTensorParametersReadOnly(g, tensor_index, dims, bytes) ==
  IF g.state_ = kStateInvokableAndImmutable THEN R(g, kTfLiteError)
  ELSE IF ~(tensor_index < NumTensors /\ tensor_index >= 0)
  THEN R(g, kTfLiteError)
  ELSE IF BytesRequired(dims) # bytes THEN R(g, kTfLiteError)
  ELSE IF g.tensors_[tensor_index].dims = dims
  THEN R([g EXCEPT !.tensors_[tensor_index].data =
                       ReadOnlyBuffer(tensor_index),
                   !.tensors_[tensor_index].allocation_type = kTfLiteMmapRo],
         kTfLiteOk)
  ELSE R([g EXCEPT !.state_ = kStateUninvokable,
                   !.tensors_[tensor_index] =
                       TfLiteTensorReset(@, dims, ReadOnlyBuffer(tensor_index),
                                         bytes, kTfLiteMmapRo)],
         kTfLiteOk)

\* Subgraph::SetTensorParametersReadWrite (the tensors are all of one type)
SetTensorParametersReadWrite(g, tensor_index, dims, is_variable) ==
  IF g.state_ = kStateInvokableAndImmutable THEN R(g, kTfLiteError)
  ELSE IF ~(tensor_index < NumTensors /\ tensor_index >= 0)
  THEN R(g, kTfLiteError)
  ELSE R([g EXCEPT !.tensors_[tensor_index] =
                       TfLiteTensorReset(@, dims, NullPtr, BytesRequired(dims),
                                         IF is_variable
                                         THEN kTfLiteArenaRwPersistent
                                         ELSE kTfLiteArenaRw)],
         kTfLiteOk)

ResizeInputTensor(g, tensor_index, dims) ==
  LET delegates_applied == g.pre_delegation_execution_plan_ # <<>>
      graph_is_immutable == g.state_ = kStateInvokableAndImmutable
  IN IF graph_is_immutable /\ ~delegates_applied THEN R(g, kTfLiteError)
     ELSE IF ~(tensor_index < NumTensors /\ tensor_index >= 0)
     THEN R(g, kTfLiteError)
     ELSE IF g.tensors_[tensor_index].data # NullPtr
             /\ g.tensors_[tensor_index].dims = dims
     THEN R(g, kTfLiteOk)
     ELSE Only({IF u.st # kTfLiteOk THEN u
                ELSE ResizeTensorImpl(
                       [u.g EXCEPT !.state_ = kStateUninvokable,
                                   !.mutated =
                                      @ \/ g.tensors_[tensor_index].dims # dims],
                       tensor_index, dims) :
                u \in {IF graph_is_immutable THEN UndoAllDelegates(g)
                       ELSE R(g, kTfLiteOk)}})

-----------------------------------------------------------------------------
(* Invocation *)

RH(g, h, st) == [g |-> g, h |-> h, st |-> st]

\* a kernel writing value v to its output tensor; a write through a null
\* data pointer kills the process
WriteOutput(g, h, t, v) ==
  IF g.tensors_[t].data = NullPtr THEN RH(g, h, Crashed)
  ELSE RH(g, [h EXCEPT ![g.tensors_[t].data] = v % ValMod], kTfLiteOk)

ReadInput(g, h, t) == h[g.tensors_[t].data]

\* op_reg.invoke of the node's kernel
KernelInvoke(g, h, node) ==
  LET in == node.inputs[1]
      out == node.outputs[1]
  IN CASE node.kind = KBadInvoke -> RH(g, h, kTfLiteError)
       [] node.kind = KAdd ->
            WriteOutput(g, h, out,
                        ReadInput(g, h, in) + ReadInput(g, h, node.inputs[2]))
       [] node.kind = KDyn ->
            Only({IF r.st # kTfLiteOk THEN RH(r.g, h, r.st)
                  ELSE WriteOutput(r.g, h, out, ReadInput(g, h, in)) :
                  r \in {ResizeTensor(g, out, g.tensors_[in].dims)}})
       [] node.kind = KDelegate ->
            WriteOutput(g, h, out, ReadInput(g, h, in) + Len(node.replaces))
       [] OTHER -> WriteOutput(g, h, out, ReadInput(g, h, in) + 1)

\* the call is kept in events with the two plan counters it found and with
\* whether the kernel resized a dynamic output tensor
OpInvoke(g, h, node_index, execution_plan_index) ==
  Only({RH([k.g EXCEPT !.events =
              Append(@, [e |-> "invoke",
                         node |-> node_index,
                         idx |-> execution_plan_index,
                         ok |-> k.st = kTfLiteOk,
                         to_prepare |->
                           g.next_execution_plan_index_to_prepare_,
                         to_plan |->
                           g.next_execution_plan_index_to_plan_allocation_,
                         resized |->
                           /\ k.g.tensor_resized_since_op_invoke_
                           /\ HasDynamicTensor(k.g, NodeAt(g, node_index).outputs),
                         has_dynamic |-> k.g.has_dynamic_tensors_])],
           k.h, k.st) :
        k \in {KernelInvoke(g, h, NodeAt(g, node_index))}})

InputLacksData(g, node) ==
  \E i \in 1..Len(node.inputs) :
     /\ node.inputs[i] # kTfLiteOptionalTensor
     /\ g.tensors_[node.inputs[i]].data = NullPtr
     /\ g.tensors_[node.inputs[i]].bytes > 0
     /\ ~(node.kind = KStrict /\ i = 2)

\* Subgraph::ContextHandler for the CPU unit: CreateSharedContext and
\* PushContextToQueue, which pushes {eType, tensor} on qSharedData under
\* mtx_lock and returns once Ucontroller is notified; the push is kept in
\* events
ContextHandler(g, eType, tensor) ==
  R([g EXCEPT !.events = Append(@, [e |-> "push", node |-> -1, idx |-> -1,
                                    ok |-> TRUE, unit |-> eType,
                                    tensor |-> tensor])],
    kTfLiteOk)

\* the channel-splitting part of the loop body of Invoke: the flag is
\* cleared, then tested (the branches for CONCATENATION nodes, which the
\* cleared flag disables as well, are left out)
DistributeStrategy(g, eType, node) ==
  LET g1 == [g EXCEPT !.use_distribute_strategy = FALSE] IN
  IF g1.use_distribute_strategy /\ node.kind = KConv /\ eType = "CPU0"
  THEN ContextHandler(g1, eType, node.outputs[1])
  ELSE R(g1, kTfLiteOk)

\* the part of the loop body of Invoke after the node's kernel returned Ok
\* and the channel-splitting part is done
AfterOpInvoke(g, execution_plan_index, node) ==
  IF g.tensor_resized_since_op_invoke_ /\ HasDynamicTensor(g, node.outputs)
  THEN LET g1 == [g EXCEPT !.next_execution_plan_index_to_prepare_ =
                              execution_plan_index + 1]
       IN IF g1.next_execution_plan_index_to_plan_allocation_ >
               g1.next_execution_plan_index_to_prepare_
          THEN LET g2 == [g1 EXCEPT
                            !.next_execution_plan_index_to_plan_allocation_ =
                                g1.next_execution_plan_index_to_prepare_]
               IN IF g2.memory_planner_
                  THEN ResetAllocationsAfter(g2, execution_plan_index)
                  ELSE R(g2, kTfLiteOk)
          ELSE R(g1, kTfLiteOk)
  ELSE R(g, kTfLiteOk)

\* check_cancelled_func_ is nullptr
NoCancellation == -1

\* mutant of CheckCancelled: the answer is read one node late
CheckCancelledLate(g, execution_plan_index, cancel_at) ==
  IF cancel_at = NoCancellation THEN [g |-> g, cancelled |-> FALSE]
  ELSE [g |-> [g EXCEPT !.events =
                   Append(@, [e |-> "cancelled", node |-> -1,
                              idx |-> execution_plan_index,
                              ok |-> execution_plan_index = cancel_at + 1])],
        cancelled |-> execution_plan_index = cancel_at + 1]

\* check_cancelled_func_ != nullptr && check_cancelled_func_(data), called
\* in the loop body for execution_plan_index; the call is kept in events
CheckCancelled(g, execution_plan_index, cancel_at) ==
  IF cancel_at = NoCancellation THEN [g |-> g, cancelled |-> FALSE]
  ELSE [g |-> [g EXCEPT !.events =
                   Append(@, [e |-> "cancelled", node |-> -1,
                              idx |-> execution_plan_index,
                              ok |-> execution_plan_index = cancel_at])],
        cancelled |-> execution_plan_index = cancel_at]

\* the loop of Invoke over the execution plan; cancel_at is the plan index at
\* which check_cancelled_func_ first answers true (NoCancellation: no
\* function is installed; an index past the plan: it answers false
\* throughout)
RECURSIVE InvokeLoop(_, _, _, _, _)
InvokeLoop(g, h, execution_plan_index, cancel_at, eType) ==
  IF execution_plan_index >= Len(g.execution_plan_) THEN RH(g, h, kTfLiteOk)
  ELSE
    Only({
      IF p.st # kTfLiteOk THEN RH(p.g, h, p.st)
      ELSE IF p.g.next_execution_plan_index_to_prepare_ < execution_plan_index
      THEN RH(p.g, h, kTfLiteError)
      ELSE
        LET node_index == PlanAt(p.g.execution_plan_, execution_plan_index)
            node == NodeAt(p.g, node_index)
        IN IF InputLacksData(p.g, node) THEN RH(p.g, h, kTfLiteError)
           ELSE Only({
             IF c.cancelled THEN RH(c.g, h, kTfLiteError)
             ELSE Only({
               IF k.st = Crashed THEN k
               ELSE IF k.st # kTfLiteOk THEN RH(k.g, k.h, kTfLiteError)
               ELSE Only({
                 IF d.st # kTfLiteOk THEN RH(d.g, k.h, kTfLiteError)
                 ELSE Only({
                   IF a.st # kTfLiteOk THEN RH(a.g, k.h, a.st)
                   ELSE InvokeLoop(a.g, k.h, execution_plan_index + 1,
                                   cancel_at, eType) :
                   a \in {AfterOpInvoke(d.g, execution_plan_index, node)}}) :
                 d \in {DistributeStrategy(k.g, eType, node)}}) :
               k \in {OpInvoke([c.g EXCEPT
                                  !.tensor_resized_since_op_invoke_ = FALSE],
                               h, node_index, execution_plan_index)}}) :
             c \in {CheckCancelled(p.g, execution_plan_index, cancel_at)}}) :
      p \in {IF execution_plan_index = g.next_execution_plan_index_to_prepare_
             THEN PrepareOpsAndTensors(g) ELSE R(g, kTfLiteOk)}})

\* mutant of Invoke: the check of state_ left out
InvokeWithoutReadyCheck(g, h, cancel_at, eType) ==
  IF ~g.consistent_ THEN RH(g, h, kTfLiteError)
  ELSE IF g.memory_planner_ /\ ~g.has_nonpersistent_memory
  THEN RH(g, h, kTfLiteError)
  ELSE InvokeLoop(g, h, 0, cancel_at, eType)

\* mutant of Invoke: a failed Invoke leaves the subgraph uninvokable
InvokeResetting(g, h, cancel_at, eType) ==
  IF ~g.consistent_ THEN RH(g, h, kTfLiteError)
  ELSE IF g.state_ = kStateUninvokable THEN RH(g, h, kTfLiteError)
  ELSE IF g.memory_planner_ /\ ~g.has_nonpersistent_memory
  THEN RH(g, h, kTfLiteError)
  ELSE Only({IF r.st = kTfLiteError
             THEN RH([r.g EXCEPT !.state_ = kStateUninvokable], r.h, r.st)
             ELSE r :
             r \in {InvokeLoop(g, h, 0, cancel_at, eType)}})

\* Subgraph::Invoke
Invoke(g, h, cancel_at, eType) ==
  IF ~g.consistent_ THEN RH(g, h, kTfLiteError)
  ELSE IF g.state_ = kStateUninvokable THEN RH(g, h, kTfLiteError)
  ELSE IF g.memory_planner_ /\ ~g.has_nonpersistent_memory
  THEN RH(g, h, kTfLiteError)
  ELSE InvokeLoop(g, h, 0, cancel_at, eType)

-----------------------------------------------------------------------------
(* Interpreter: the tensor bridge and the walk over the subgraphs *)

subgraphs_size(S) == Cardinality(DOMAIN S)

GetFirstOpName(g) ==
  IF Len(g.nodes_and_registration_) < 1 THEN "NO_OP"
  ELSE g.nodes_and_registration_[1].kind

GetInputsInMultipleSubgraphs(g) == g.inputs_[Len(g.inputs_)]

GetMultipleInputTensorIdx(g) == NodeAt(g, PlanAt(g.execution_plan_, 0)).inputs

SwitchTensor(g, tensor, idx) == [g EXCEPT !.tensors_[idx] = tensor]

RB(S, h, used, st) == [S |-> S, h |-> h, used |-> used, st |-> st]

\* memcpy(data_dest, data_source, n) with n > 0: a null pointer on either
\* side kills the process
memcpy(h, data_dest, data_source) ==
  IF data_dest = NullPtr \/ data_source = NullPtr
  THEN [h |-> h, st |-> Crashed]
  ELSE [h |-> [h EXCEPT ![data_dest] = h[data_source]], st |-> kTfLiteOk]

\* mutant of connect: a size mismatch is reported with a status other than
\* kTfLiteError
connectReportingOtherError(S, h, used, source_subgraph, dest_subgraph) ==
  LET source_tensor ==
        S[source_subgraph].tensors_[S[source_subgraph].outputs_[1]]
      dest_tensor ==
        S[dest_subgraph].tensors_[GetInputsInMultipleSubgraphs(S[dest_subgraph])]
  IN IF source_tensor.bytes # dest_tensor.bytes
     THEN RB(S, h, used, kTfLiteApplicationError)
     ELSE Only({IF c.st = Crashed THEN RB(S, h, used, Crashed)
                ELSE RB(S, c.h,
                        Append(used, [idx |-> S[source_subgraph].outputs_[1],
                                      sg |-> source_subgraph]),
                        kTfLiteOk) :
                c \in {memcpy(h, dest_tensor.data, source_tensor.data)}})

\* the lambda connect of Interpreter::Invoke; a used entry holds the index
\* and the TfLiteTensor* (the owning subgraph and the index again)
connect(S, h, used, source_subgraph, dest_subgraph) ==
  LET source_graph == S[source_subgraph]
      dest_graph == S[dest_subgraph]
      source_tensor_idx == source_graph.outputs_[1]
      dest_tensor_idx == GetInputsInMultipleSubgraphs(dest_graph)
      source_tensor == source_graph.tensors_[source_tensor_idx]
      dest_tensor == dest_graph.tensors_[dest_tensor_idx]
  IN IF source_tensor.bytes # dest_tensor.bytes
     THEN RB(S, h, used, kTfLiteError)
     ELSE Only({IF c.st = Crashed THEN RB(S, h, used, Crashed)
                ELSE RB(S, c.h,
                        Append(used, [idx |-> source_tensor_idx,
                                      sg |-> source_subgraph]),
                        kTfLiteOk) :
                c \in {memcpy(h, dest_tensor.data, source_tensor.data)}})

\* the two nested loops of connectAdd, k counting the (i, j) pairs
RECURSIVE connectAddLoop(_, _, _, _, _, _)
connectAddLoop(S, h, used, dest_subgraph, inputs, k) ==
  IF k >= Len(inputs) * Len(used) THEN RB(S, h, used, kTfLiteOk)
  ELSE
    LET i == (k \div Len(used)) + 1
        j == (k % Len(used)) + 1
    IN IF used[j].idx # inputs[i]
       THEN connectAddLoop(S, h, used, dest_subgraph, inputs, k + 1)
       ELSE
         LET source_tensor == S[used[j].sg].tensors_[used[j].idx]
             S1 == [S EXCEPT ![dest_subgraph] =
                                SwitchTensor(@, source_tensor, used[j].idx)]
             dest_tensor == S1[dest_subgraph].tensors_[inputs[i]]
         IN IF source_tensor.bytes # dest_tensor.bytes
            THEN RB(S1, h, used, kTfLiteError)
            ELSE Only({IF c.st = Crashed THEN RB(S1, h, used, Crashed)
                       ELSE connectAddLoop(S1, c.h, used, dest_subgraph,
                                           inputs, k + 1) :
                       c \in {memcpy(h, dest_tensor.data, source_tensor.data)}})

\* mutant of connectAdd: the test of the two sizes is left out
connectAddUnchecked(S, h, used, dest_subgraph) ==
  connectAddLoop(S, h, used, dest_subgraph,
                 GetMultipleInputTensorIdx(S[dest_subgraph]), 0)

\* the lambda connectAdd of Interpreter::Invoke
connectAdd(S, h, used, dest_subgraph) ==
  LET inputs == GetMultipleInputTensorIdx(S[dest_subgraph]) IN
  IF Len(inputs) < 2 \/ Len(used) < 2 THEN RB(S, h, used, kTfLiteError)
  ELSE connectAddLoop(S, h, used, dest_subgraph, inputs, 0)

\* what a subgraph holds once its Invoke returned: its record and the
\* contents of its own buffers
Snapshot(g, h) == [g |-> g, own |-> [t \in TensorIds |-> h[Buf(g.id, t)]]]

\* history of a bridge step before subgraph i: the destination before and
\* after it, the subgraph before it, the used list before and after it, and
\* the tensors the entries of the used list point to
BridgeEvent(S, h, used, i, b) ==
  [e |-> IF GetFirstOpName(S[i]) = "ADD" THEN "connectAdd" ELSE "connect",
   i |-> i, st |-> b.st,
   pre |-> Snapshot(S[i], h), src |-> Snapshot(S[i - 1], h),
   used0 |-> used, used |-> b.used,
   srcs |-> [j \in 1..Len(used) |-> S[used[j].sg].tensors_[used[j].idx]],
   snap |-> Snapshot(b.S[i], b.h)]

\* history of the invocation of subgraph i
InvokeEvent(i, inv) ==
  [e |-> "Invoke", i |-> i, st |-> inv.st,
   snap |-> Snapshot([inv.g EXCEPT !.events = <<>>], inv.h)]

RECURSIVE Walk(_, _, _, _, _)

\* mutant of Walk: the walk goes on to the next subgraph when a subgraph's
\* Invoke did not return kTfLiteOk
WalkPastFailedInvoke(S, h, used, i, walk) ==
  IF i >= subgraphs_size(S)
  THEN [S |-> S, h |-> h, used |-> used, st |-> kTfLiteOk, walk |-> walk]
  ELSE
    Only({
      LET walk1 == IF i = 0 THEN walk
                   ELSE Append(walk, BridgeEvent(S, h, used, i, b))
      IN IF b.st \in {kTfLiteError, Crashed}
         THEN [S |-> b.S, h |-> b.h, used |-> b.used, st |-> b.st,
               walk |-> walk1]
         ELSE Only({
           Walk([b.S EXCEPT ![i] = [inv.g EXCEPT !.events = <<>>]], inv.h,
                b.used, i + 1, Append(walk1, InvokeEvent(i, inv))) :
           inv \in {Invoke([b.S[i] EXCEPT !.events = <<>>], b.h,
                           NoCancellation, "GPU0")}}) :
      b \in {IF i = 0 THEN RB(S, h, used, kTfLiteOk)
             ELSE IF GetFirstOpName(S[i]) = "ADD" THEN connectAdd(S, h, used, i)
             ELSE connect(S, h, used, i - 1, i)}})

\* the loop of Interpreter::Invoke (GPU0) from subgraph i on; walk is the
\* history of the bridge steps and subgraph invocations of this call
Walk(S, h, used, i, walk) ==
  IF i >= subgraphs_size(S)
  THEN [S |-> S, h |-> h, used |-> used, st |-> kTfLiteOk, walk |-> walk]
  ELSE
    Only({
      LET walk1 == IF i = 0 THEN walk
                   ELSE Append(walk, BridgeEvent(S, h, used, i, b))
      IN IF b.st \in {kTfLiteError, Crashed}
         THEN [S |-> b.S, h |-> b.h, used |-> b.used, st |-> b.st,
               walk |-> walk1]
         ELSE Only({
           LET g1 == [inv.g EXCEPT !.events = <<>>]
               walk2 == Append(walk1, InvokeEvent(i, inv))
           IN IF inv.st # kTfLiteOk
              THEN [S |-> [b.S EXCEPT ![i] = g1], h |-> inv.h,
                    used |-> b.used,
                    st |-> IF inv.st = Crashed THEN Crashed ELSE kTfLiteError,
                    walk |-> walk2]
              ELSE Walk([b.S EXCEPT ![i] = g1], inv.h, b.used, i + 1, walk2) :
           inv \in {Invoke([b.S[i] EXCEPT !.events = <<>>], b.h,
                           NoCancellation, "GPU0")}}) :
      b \in {IF i = 0 THEN RB(S, h, used, kTfLiteOk)
             ELSE IF GetFirstOpName(S[i]) = "ADD" THEN connectAdd(S, h, used, i)
             ELSE connect(S, h, used, i - 1, i)}})

\* mutant of InterpreterInvoke: the GPU unit starts from an empty used list
InterpreterInvokeClearingUsed(S, h, used, eType) ==
  IF eType = "CPU0"
  THEN Only({
         LET g1 == [inv.g EXCEPT !.events = <<>>] IN
         [S |-> [S EXCEPT ![0] = g1], h |-> inv.h, used |-> used,
          st |-> inv.st,
          walk |-> <<InvokeEvent(0, inv)>>] :
         inv \in {Invoke([S[0] EXCEPT !.events = <<>>], h, NoCancellation,
                         eType)}})
  ELSE Walk(S, h, <<>>, 0, <<>>)

\* mutant of InterpreterInvoke: the CPU unit walks every subgraph as well
InterpreterInvokeWalkingAlways(S, h, used, eType) == Walk(S, h, used, 0, <<>>)

\* Interpreter::Invoke(UnitType, ...)
InterpreterInvoke(S, h, used, eType) ==
  IF eType = "CPU0"
  THEN Only({
         LET g1 == [inv.g EXCEPT !.events = <<>>] IN
         [S |-> [S EXCEPT ![0] = g1], h |-> inv.h, used |-> used,
          st |-> inv.st,
          walk |-> <<InvokeEvent(0, inv)>>] :
         inv \in {Invoke([S[0] EXCEPT !.events = <<>>], h, NoCancellation,
                         eType)}})
  ELSE Walk(S, h, used, 0, <<>>)

\* the inner loop of AllocateTensorsofAllSubgraphsAndFixShape over the
\* subgraphs listed for one shared tensor, from position j on; the status of
\* ResizeInputTensor is dropped
RECURSIVE FixShape(_, _, _, _, _)
FixShape(S, base_tensor, graphs, match_dims, j) ==
  IF j > Len(graphs) THEN S
  ELSE LET working_subgraph == graphs[j]
       IN IF j = 1
          THEN FixShape(S, base_tensor, graphs,
                        S[working_subgraph].tensors_[base_tensor].dims, j + 1)
          ELSE FixShape([S EXCEPT ![working_subgraph] =
                           ResizeInputTensor(@, base_tensor, match_dims).g],
                        base_tensor, graphs, match_dims, j + 1)

\* the outer loop over shared_tensor_and_graph, from entry i on
RECURSIVE FixShapes(_, _, _)
FixShapes(S, shared, i) ==
  IF i > Len(shared) THEN S
  ELSE FixShapes(FixShape(S, shared[i].first, shared[i].second, <<>>, 1),
                 shared, i + 1)

\* the last loop: AllocateTensors on subgraph i and those after it
RECURSIVE AllocateFrom(_, _)
AllocateFrom(S, i) ==
  IF i >= subgraphs_size(S) THEN [S |-> S, st |-> kTfLiteOk]
  ELSE Only({IF a.st # kTfLiteOk
             THEN [S |-> [S EXCEPT ![i] = a.g], st |-> kTfLiteError]
             ELSE AllocateFrom([S EXCEPT ![i] = a.g], i + 1) :
             a \in {AllocateTensors(S[i])}})

\* Interpreter::AllocateTensorsofAllSubgraphsAndFixShape; shared is
\* shared_tensor_and_graph
AllocateTensorsofAllSubgraphsAndFixShape(S, shared) ==
  Only({IF a.st # kTfLiteOk
        THEN [S |-> [S EXCEPT ![0] = a.g], st |-> kTfLiteError]
        ELSE AllocateFrom(FixShapes([S EXCEPT ![0] = a.g], shared, 1), 1) :
        a \in {AllocateTensors(S[0])}})

\* a variant that leaves the delegates where they are
InterpreterKeepDelegates(S, i) == [S |-> S, st |-> kTfLiteOk]

\* Interpreter::RemoveAllDelegates, from subgraph i on
RECURSIVE InterpreterRemoveAllDelegates(_, _)
InterpreterRemoveAllDelegates(S, i) ==
  IF i >= subgraphs_size(S) THEN [S |-> S, st |-> kTfLiteOk]
  ELSE Only({IF r.st # kTfLiteOk
             THEN [S |-> [S EXCEPT ![i] = r.g], st |-> r.st]
             ELSE InterpreterRemoveAllDelegates([S EXCEPT ![i] = r.g], i + 1) :
             r \in {RemoveAllDelegates(S[i])}})

\* the loop of Interpreter::ModifyGraphWithDelegate, from subgraph i on; k is
\* the subgraph the loop broke at (-1: none)
RECURSIVE DelegateSubgraphs(_, _, _)
DelegateSubgraphs(S, i, delegate) ==
  IF i >= subgraphs_size(S) THEN [S |-> S, st |-> kTfLiteOk, k |-> -1]
  ELSE Only({IF m.st # kTfLiteOk
             THEN [S |-> [S EXCEPT ![i] = m.g], st |-> m.st, k |-> i]
             ELSE DelegateSubgraphs([S EXCEPT ![i] = m.g], i + 1, delegate) :
             m \in {ModifyGraphWithDelegate(S[i], delegate)}})

\* Interpreter::ModifyGraphWithDelegate; inner is the status the loop ended
\* with
InterpreterModifyGraphWithDelegate(S, delegate) ==
  Only({IF l.st = kTfLiteDelegateError
        THEN Only({[S |-> r.S, st |-> IF r.st # kTfLiteOk THEN r.st ELSE l.st,
                    k |-> l.k, inner |-> l.st] :
                   r \in {InterpreterRemoveAllDelegates(l.S, 0)}})
        ELSE [S |-> l.S, st |-> l.st, k |-> l.k, inner |-> l.st] :
        l \in {DelegateSubgraphs(S, 0, delegate)}})

-----------------------------------------------------------------------------
(* The lifecycle of one subgraph: the client builds the primary subgraph    *)
(* node by node, resizes its input, allocates, applies delegates, invokes.  *)

NoCall == [op |-> "none", st |-> kTfLiteOk, events |-> <<>>,
           walk |-> <<>>, k |-> -1, inner |-> kTfLiteOk, args |-> <<>>]

Alive == last.st # Crashed

IsRollback(ev) == ev.e = "rollback"

\* what is kept of the history of a call: the kernel calls of an Invoke, and
\* for the other calls whether a delegate application was rolled back
History(op, events) ==
  IF op \in {"Invoke", "AllocateTensors"} THEN events
  ELSE SelectSeq(events, IsRollback)

\* the state after a call on subgraph i, made with the arguments args, that
\* returned r
ReturnedFrom(i, op, args, r, h) ==
  /\ subgraphs_' = [subgraphs_ EXCEPT ![i] = [r.g EXCEPT !.events = <<>>]]
  /\ heap' = h
  /\ last' = [NoCall EXCEPT !.op = op, !.st = r.st,
                             !.events = History(op, r.g.events),
                             !.k = i, !.args = args]
  /\ UNCHANGED <<used_tensor_and_index, handoff, merge, worker>>

Returned(i, op, r, h) == ReturnedFrom(i, op, <<>>, r, h)

primary == subgraphs_[0]

\* no worker thread is running
NoHandoff == <<>>
\* ConcatContext has not been called
NoMerge == <<>>
\* no Worker has been constructed
NoWorker == <<>>

LifecycleKinds == {KConv, KDyn, KStrict, KBadInvoke}

\* how many nodes the client has added (fused delegate nodes not counted)
UserNodes(g) ==
  Cardinality({i \in 1..Len(g.nodes_and_registration_) :
                 g.nodes_and_registration_[i].kind # KDelegate})

Init ==
  /\ subgraphs_ = [i \in {0} |-> NewSubgraph(0, <<0>>, <<MaxNodes>>, <<1>>)]
  /\ used_tensor_and_index = <<>>
  /\ heap = [b \in BufferIds |-> 0]
  /\ last = NoCall
  /\ handoff = NoHandoff
  /\ merge = NoMerge
  /\ worker = NoWorker

\* the client adds the next node of the chain (tensor j -> tensor j+1), or
\* a node with an invalid tensor index, or a builtin node whose output is
\* its input
DoAddNodeWithParameters ==
  /\ Alive
  /\ UserNodes(primary) < MaxNodes
  /\ \E kind \in LifecycleKinds, shape \in {"chain", "bad_index", "overlap"} :
       LET j == UserNodes(primary)
           inputs == IF shape = "bad_index" THEN <<NumTensors>> ELSE <<j>>
           outputs == IF shape = "overlap" THEN <<j>> ELSE <<j + 1>>
       IN \E r \in {AddNodeWithParameters(primary, inputs, outputs, TRUE,
                                          kind)} :
            Returned(0, "AddNodeWithParameters", r, heap)

DoResizeInputTensor ==
  /\ Alive
  /\ \E tensor_index \in {0, NumTensors}, d \in 1..MaxDim :
       \E r \in {ResizeInputTensor(primary, tensor_index, <<d>>)} :
          ReturnedFrom(0, "ResizeInputTensor", <<tensor_index, <<d>>>>, r, heap)

DoAllocateTensors ==
  /\ Alive
  /\ \E r \in {AllocateTensors(primary)} :
       \* args tells whether the call follows another AllocateTensors
       ReturnedFrom(0, "AllocateTensors", <<last.op = "AllocateTensors">>,
                    r, heap)

\* MaxApplied bounds the delegates already applied to the subgraph
ModifyGraphWithDelegateUpTo(MaxApplied) ==
  /\ Len(primary.delegates_applied_) < MaxApplied
  /\ \E delegate \in DelegateIds :
       \E r \in {ModifyGraphWithDelegate(primary, delegate)} :
          /\ subgraphs_' = [subgraphs_ EXCEPT ![0] = [r.g EXCEPT !.events = <<>>]]
          /\ last' = [NoCall EXCEPT !.op = "ModifyGraphWithDelegate",
                                     !.st = r.st,
                                     !.events = History("ModifyGraphWithDelegate",
                                                        r.g.events),
                                     !.k = 0,
                                     !.inner = delegate]
          /\ UNCHANGED <<heap, used_tensor_and_index, handoff, merge, worker>>

\* in the lifecycle the client applies a delegate to a subgraph that has none
DoModifyGraphWithDelegate ==
  /\ Alive
  /\ ModifyGraphWithDelegateUpTo(1)

DoInvoke ==
  /\ Alive
  /\ \E cancel_at \in {NoCancellation} \cup 0..MaxNodes :
       \E r \in {Invoke(primary, heap, cancel_at, "CPU0")} :
          ReturnedFrom(0, "Invoke", <<cancel_at>>, r, r.h)

DoReleaseNonPersistentMemory ==
  /\ Alive
  /\ \E r \in {ReleaseNonPersistentMemory(primary)} :
       Returned(0, "ReleaseNonPersistentMemory", r, heap)

Next ==
  \/ DoAddNodeWithParameters
  \/ DoResizeInputTensor
  \/ DoAllocateTensors
  \/ DoModifyGraphWithDelegate
  \/ DoInvoke
  \/ DoReleaseNonPersistentMemory

Spec == Init /\ [][Next]_vars

-----------------------------------------------------------------------------
(* Delegate application on the subgraph under construction: the client      *)
(* adds nodes, resizes, allocates and applies up to MaxDelegates delegates. *)

DoModifyGraphWithDelegates ==
  /\ Alive
  /\ ModifyGraphWithDelegateUpTo(MaxDelegates)

NextDelegates ==
  \/ DoAddNodeWithParameters
  \/ DoResizeInputTensor
  \/ DoAllocateTensors
  \/ DoModifyGraphWithDelegates

SpecDelegates == Init /\ [][NextDelegates]_vars

-----------------------------------------------------------------------------
(* Delegation with tensor parameters: besides adding nodes, resizing and    *)
(* applying delegates, the client sets the parameters of a tensor of a      *)
(* graph whose last delegate does not allow dynamic tensors (an immutable   *)
(* graph, or one whose delegates a resize has undone), read-only over its   *)
(* own buffer or read-write.                                                *)

StaticDelegateLast ==
  /\ primary.delegates_applied_ # <<>>
  /\ ~AllowDynamicTensors(
        primary.delegates_applied_[Len(primary.delegates_applied_)])

DoSetTensorParametersReadOnly ==
  /\ Alive
  /\ StaticDelegateLast
  /\ \E tensor_index \in {0, NumTensors}, d \in 1..MaxDim, exact \in BOOLEAN :
       LET bytes == IF exact THEN BytesRequired(<<d>>) ELSE 0 IN
       \E r \in {SetTensorParametersReadOnly(primary, tensor_index, <<d>>,
                                             bytes)} :
          ReturnedFrom(0, "SetTensorParametersReadOnly",
                       <<tensor_index, <<d>>>>, r, heap)

DoSetTensorParametersReadWrite ==
  /\ Alive
  /\ StaticDelegateLast
  /\ \E tensor_index \in {0, NumTensors}, d \in 1..MaxDim :
       \E r \in {SetTensorParametersReadWrite(primary, tensor_index, <<d>>,
                                              FALSE)} :
          ReturnedFrom(0, "SetTensorParametersReadWrite",
                       <<tensor_index, <<d>>>>, r, heap)

NextParameters ==
  \/ DoAddNodeWithParameters
  \/ DoResizeInputTensor
  \/ DoModifyGraphWithDelegates
  \/ DoSetTensorParametersReadOnly
  \/ DoSetTensorParametersReadWrite

SpecParameters == Init /\ [][NextParameters]_vars

-----------------------------------------------------------------------------
(* Structural mutation of the subgraph: besides adding nodes, resizing,     *)
(* allocating and invoking, the client sets the inputs, the outputs and     *)
(* the variables, with valid and with out-of-range tensor indices.          *)

DoSetInputs ==
  /\ Alive
  /\ \E inputs \in {<<0>>, <<1>>, <<NumTensors>>} :
       \E r \in {SetInputs(primary, inputs)} :
          Returned(0, "SetInputs", r, heap)

DoSetOutputs ==
  /\ Alive
  /\ \E outputs \in {<<MaxNodes>>, <<1>>, <<NumTensors>>} :
       \E r \in {SetOutputs(primary, outputs)} :
          Returned(0, "SetOutputs", r, heap)

DoSetVariables ==
  /\ Alive
  /\ \E variables \in {<<1>>, <<NumTensors>>} :
       \E r \in {SetVariables(primary, variables)} :
          ReturnedFrom(0, "SetVariables", <<variables>>, r, heap)

NextMutation ==
  \/ DoAddNodeWithParameters
  \/ DoResizeInputTensor
  \/ DoAllocateTensors
  \/ DoSetInputs
  \/ DoSetOutputs
  \/ DoSetVariables
  \/ DoInvoke

SpecMutation == Init /\ [][NextMutation]_vars

-----------------------------------------------------------------------------
(* Channel splitting: the client builds and allocates the subgraph, turns   *)
(* channel splitting on with SetPartitioning and invokes the subgraph as    *)
(* the CPU or the GPU unit.                                                 *)

\* Interpreter::SetPartitioning, by what it does to the subgraph
SetPartitioning(g, partitioning) ==
  R([g EXCEPT !.partitioning_plan = partitioning,
              !.use_distribute_strategy = TRUE],
    kTfLiteOk)

\* the client sets one of the ratios Plans
SetPartitioningWithin(Plans) ==
  \E partitioning \in Plans :
    \E r \in {SetPartitioning(primary, partitioning)} :
       ReturnedFrom(0, "SetPartitioning", <<partitioning>>, r, heap)

\* here the client splits evenly
DoSetPartitioning ==
  /\ Alive
  /\ SetPartitioningWithin({5})

DoInvokeAs ==
  /\ Alive
  /\ \E eType \in {"CPU0", "GPU0"} :
       \E r \in {Invoke(primary, heap, NoCancellation, eType)} :
          ReturnedFrom(0, "Invoke", <<NoCancellation, eType>>, r, r.h)

NextPartitioning ==
  \/ DoAddNodeWithParameters
  \/ DoResizeInputTensor
  \/ DoAllocateTensors
  \/ DoSetPartitioning
  \/ DoInvokeAs

SpecPartitioning == Init /\ [][NextPartitioning]_vars

-----------------------------------------------------------------------------
(* The channel-ratio rewrite: a subgraph with a CONV_2D node followed by a  *)
(* CONCATENATION node; the client sets a ratio, applies delegates, resizes  *)
(* the input, allocates and invokes.                                        *)

Ratios == 1..9
\* output-channel counts of the convolution's filter
FilterCounts == {4, 25}

\* tensors: 0 the input, 1 the filter (OHWI), 2 the bias, 3 the output of
\* the convolution, 4 the second input of the concatenation, 5 its output
SplitSubgraph(filters) ==
  LET g == [NewSubgraph(0, <<0, 1, 2, 4>>, <<5>>, <<1, 1, 1, 1>>) EXCEPT
              !.tensors_[1] = NewTensor(<<filters, 1, 1, 1>>),
              !.tensors_[2] = NewTensor(<<filters>>),
              !.tensors_[3] = NewTensor(<<1, 1, 1, filters>>),
              !.tensors_[5] = NewTensor(<<1, 1, 1, filters + 1>>)]
      conv == AddNodeWithParameters(g, <<0, 1, 2>>, <<3>>, TRUE, KConv).g
  IN [AddNodeWithParameters(conv, <<3, 4>>, <<5>>, TRUE, KConcat).g
        EXCEPT !.mutated = FALSE]

InitRewrite ==
  /\ \E filters \in FilterCounts :
       subgraphs_ = [i \in {0} |-> SplitSubgraph(filters)]
  /\ used_tensor_and_index = <<>>
  /\ heap = [b \in BufferIds |-> 0]
  /\ last = NoCall
  /\ handoff = NoHandoff
  /\ merge = NoMerge
  /\ worker = NoWorker

\* the client sets the ratio once
DoSetPartitioningRatio ==
  /\ Alive
  /\ primary.partitioning_plan = 0
  /\ SetPartitioningWithin(Ratios)

NextRewrite ==
  \/ DoSetPartitioningRatio
  \/ DoModifyGraphWithDelegates
  \/ DoResizeInputTensor
  \/ DoAllocateTensors
  \/ DoInvokeAs

SpecRewrite == InitRewrite /\ [][NextRewrite]_vars

-----------------------------------------------------------------------------
(* The interpreter over a model split into NumSubgraphs subgraphs of one    *)
(* node each: subgraph i reads tensor i and writes tensor i+1; an ADD       *)
(* subgraph also reads tensor i-1.                                          *)

InterpKinds(i) == IF i = 0 THEN {KConv, KStrict, KBadInvoke}
                  ELSE {KConv, KAdd, KStrict, KBadInvoke}

\* the subgraph the model builder makes for position i
BuildSubgraph(i, kind, d) ==
  LET inputs == IF kind = KAdd THEN <<i - 1, i>> ELSE <<i>>
      node_inputs == IF kind = KAdd THEN <<i, i - 1>> ELSE <<i>>
  IN AddNodeWithParameters(NewSubgraph(i, inputs, <<i + 1>>, <<d>>),
                           node_inputs, <<i + 1>>, TRUE, kind).g

\* at most two subgraphs (p and q) are not CONV_2D, at most one (b) has
\* tensors of dims other than 1; v is the content of the model's input
InitInterp ==
  /\ \E p \in SubgraphIds, q \in SubgraphIds, b \in SubgraphIds,
        d \in 1..MaxDim, v \in 0..(ValMod - 1) :
       \E kp \in InterpKinds(p), kq \in InterpKinds(q) :
         /\ subgraphs_ = [i \in SubgraphIds |->
               BuildSubgraph(i,
                             IF i = p THEN kp ELSE IF i = q THEN kq ELSE KConv,
                             IF i = b THEN d ELSE 1)]
         /\ heap = [x \in BufferIds |-> IF x = Buf(0, 0) THEN v ELSE 0]
  /\ used_tensor_and_index = <<>>
  /\ last = NoCall
  /\ handoff = NoHandoff
  /\ merge = NoMerge
  /\ worker = NoWorker

InterpAllocateTensors ==
  /\ Alive
  /\ \E i \in SubgraphIds :
       \E r \in {AllocateTensors(subgraphs_[i])} :
          Returned(i, "AllocateTensors", r, heap)

InterpInvoke ==
  /\ Alive
  /\ Len(used_tensor_and_index) < MaxUsed
  /\ \E eType \in {"CPU0", "GPU0"} :
       \E r \in {InterpreterInvoke(subgraphs_, heap, used_tensor_and_index,
                                    eType)} :
          /\ subgraphs_' = r.S
          /\ heap' = r.h
          /\ used_tensor_and_index' = r.used
          /\ last' = [NoCall EXCEPT !.op = "Interpreter::Invoke", !.st = r.st,
                                     !.walk = r.walk,
                                     !.inner = eType]
          /\ UNCHANGED <<handoff, merge, worker>>

InterpModifyGraphWithDelegate ==
  /\ Alive
  /\ \A i \in SubgraphIds : subgraphs_[i].delegates_applied_ = <<>>
  /\ \E delegate \in DelegateIds :
       \E r \in {InterpreterModifyGraphWithDelegate(subgraphs_, delegate)} :
          /\ subgraphs_' = [i \in SubgraphIds |-> [r.S[i] EXCEPT !.events = <<>>]]
          /\ last' = [NoCall EXCEPT !.op = "Interpreter::ModifyGraphWithDelegate",
                                     !.st = r.st, !.k = r.k, !.inner = r.inner]
          /\ UNCHANGED <<heap, used_tensor_and_index, handoff, merge, worker>>

NextInterp ==
  \/ InterpAllocateTensors
  \/ InterpInvoke
  \/ InterpModifyGraphWithDelegate

SpecInterp == InitInterp /\ [][NextInterp]_vars

-----------------------------------------------------------------------------
(* The interpreter over a model with one subgraph that starts with ADD,     *)
(* whose ADD node lists two inputs or one.                                  *)

\* the subgraph at position i whose ADD node lists the inputs node_inputs
BuildAddSubgraph(i, node_inputs) ==
  AddNodeWithParameters(NewSubgraph(i, <<i - 1, i>>, <<i + 1>>, <<1>>),
                        node_inputs, <<i + 1>>, TRUE, KAdd).g

\* subgraph p starts with ADD, the others are CONV_2D; v is the content of
\* the model's input
InitAdd ==
  /\ \E p \in SubgraphIds \ {0}, v \in 0..(ValMod - 1) :
       \E node_inputs \in {<<p, p - 1>>, <<p>>} :
         /\ subgraphs_ = [i \in SubgraphIds |->
               IF i = p THEN BuildAddSubgraph(i, node_inputs)
               ELSE BuildSubgraph(i, KConv, 1)]
         /\ heap = [x \in BufferIds |-> IF x = Buf(0, 0) THEN v ELSE 0]
  /\ used_tensor_and_index = <<>>
  /\ last = NoCall
  /\ handoff = NoHandoff
  /\ merge = NoMerge
  /\ worker = NoWorker

SpecAdd == InitAdd /\ [][NextInterp]_vars

-----------------------------------------------------------------------------
(* The interpreter allocating all its subgraphs, with tensors shared       *)
(* between subgraphs.                                                      *)

\* shared_tensor_and_graph: no entry, or one entry for a tensor that one
\* subgraph writes and the next reads, the two subgraphs listed in either
\* order
SharedLists ==
  {<<>>} \cup
  UNION {{<<[first |-> t, second |-> <<t - 1, t>>]>>,
          <<[first |-> t, second |-> <<t, t - 1>>]>>} :
         t \in 1..(NumSubgraphs - 1)}

DoAllocateTensorsofAllSubgraphsAndFixShape ==
  /\ Alive
  /\ \E shared \in SharedLists :
       \E r \in {AllocateTensorsofAllSubgraphsAndFixShape(subgraphs_, shared)} :
          /\ subgraphs_' = [i \in SubgraphIds |-> [r.S[i] EXCEPT !.events = <<>>]]
          /\ last' = [NoCall EXCEPT
                        !.op = "AllocateTensorsofAllSubgraphsAndFixShape",
                        !.st = r.st, !.args = shared]
          /\ UNCHANGED <<heap, used_tensor_and_index, handoff, merge, worker>>

NextAllocateAll ==
  \/ DoAllocateTensorsofAllSubgraphsAndFixShape
  \/ InterpAllocateTensors
  \/ InterpModifyGraphWithDelegate

SpecAllocateAll == InitInterp /\ [][NextAllocateAll]_vars

-----------------------------------------------------------------------------
(* The hand-off of split convolutions between a CPU worker and a GPU        *)
(* worker.  Each worker runs Subgraph::Invoke on its own subgraph; the two  *)
(* calls share qSharedData, mtx_lock, mtx_lock_ and Ucontroller.  The steps *)
(* are those of the channel-splitting block of the loop body, taken when    *)
(* use_distribute_strategy holds at its test, and of the functions the      *)
(* block calls.  The kernels are left abstract.  Every statement that       *)
(* touches qSharedData runs under a unique_lock on mtx_lock, so each such   *)
(* critical section is one step.                                            *)

Units == {"CPU0", "GPU0"}

\* owner of a std::mutex that no thread holds
Nobody == "nobody"
\* the pointer front() yields on an empty queue
Garbage == -1
Running == "running"

\* execution plans of the CPU subgraph and of the GPU subgraph
CPUPlans ==
  {<<KConv>>, <<KConv, KConv>>, <<KConv, KConcat, KConv>>,
   <<KConv, KAdd, KConv>>}
GPUPlans == {<<KConv, KConcat>>, <<KConv, KConcat, KConv, KConcat>>}

\* Subgraph::CheckConv2dNodes: the number of CONV_2D nodes
CheckConv2dNodes(plan) == Cardinality({i \in 1..Len(plan) : plan[i] = KConv})

\* the output tensor of the node at plan index i of unit u's subgraph
TensorOf(u, i) == <<u, i>>

NoStep == [unit |-> "none", at |-> "none", pending |-> 0, queue |-> <<>>,
           notified |-> FALSE]

\* the two workers entering the loop of Invoke; gate is the owner of
\* mtx_lock_ at that time
StartHandoff(cpu, gpu, gate) ==
  LET plan == [u \in Units |-> IF u = "CPU0" THEN cpu ELSE gpu] IN
  [plan |-> plan,
   idx |-> [u \in Units |-> 0],
   pc |-> [u \in Units |-> "node"],
   status |-> [u \in Units |-> Running],
   number_of_conv |-> [u \in Units |-> CheckConv2dNodes(plan[u])],
   number_of_conv_temp |-> [u \in Units |-> CheckConv2dNodes(plan[u])],
   qSharedData |-> <<>>,
   \* the SharedContext objects made by new, in the order of their creation;
   \* qSharedData, slaveData and SlaveData hold positions in contexts
   contexts |-> <<>>,
   \* the SharedContext objects deleted
   freed |-> {},
   mtx_lock_ |-> gate,
   \* Ucontroller: the CPU thread blocked in wait has been woken
   woken |-> FALSE,
   \* slaveData of ContextHandler (CPU) and SlaveData of ConcatContext (GPU)
   slaveData |-> 0,
   SlaveData |-> 0,
   \* CPU tensors whose data pointer was set to another tensor's buffer
   aliased |-> {},
   \* history: a wake-up without notification happened; the contexts popped,
   \* in order; the last step taken
   spurious |-> FALSE,
   pops |-> <<>>,
   step |-> NoStep]

Step(h, u, at) ==
  [unit |-> u, at |-> at, pending |-> h.number_of_conv_temp[u],
   queue |-> h.qSharedData, notified |-> FALSE]

\* the loop test of Invoke: the plan is done, or the next kernel is invoked
StartNode(h, u) ==
  IF h.idx[u] >= Len(h.plan[u])
  THEN [h EXCEPT !.pc[u] = "done", !.status[u] = kTfLiteOk,
                 !.step = Step(h, u, "return")]
  ELSE [h EXCEPT !.pc[u] = "invoke", !.step = Step(h, u, "OpInvoke")]

\* the end of the loop body: the pending count is reset when it has run
\* out, and then the CPU's Invoke returns
LoopEnd(h, u) ==
  IF h.number_of_conv_temp[u] <= 0
  THEN IF u = "GPU0"
       THEN [h EXCEPT !.number_of_conv_temp[u] = h.number_of_conv[u],
                      !.idx[u] = @ + 1, !.pc[u] = "node"]
       ELSE [h EXCEPT !.number_of_conv_temp[u] = h.number_of_conv[u],
                      !.pc[u] = "done", !.status[u] = kTfLiteOk]
  ELSE [h EXCEPT !.idx[u] = @ + 1, !.pc[u] = "node"]

\* new SharedContext{eType, tensor}
CreateSharedContext(h, eType, tensor) ==
  [h EXCEPT !.contexts = Append(@, [eType |-> eType, tensor |-> tensor])]

\* the channel-splitting block after the kernel of the node has returned
AfterOpInvoke2(h, u) ==
  LET kind == h.plan[u][h.idx[u] + 1]
      h0 == [h EXCEPT !.step = Step(h, u, "invoked")]
  IN IF kind = KConv /\ u = "CPU0"
     THEN [CreateSharedContext(h0, u, TensorOf(u, h.idx[u])) EXCEPT
             !.slaveData = Len(h.contexts) + 1, !.pc[u] = "push"]
     ELSE IF kind = KConcat /\ u = "CPU0" THEN [h0 EXCEPT !.pc[u] = "cpupop"]
     ELSE IF kind = KConcat /\ u = "GPU0" THEN [h0 EXCEPT !.pc[u] = "gate"]
     ELSE LoopEnd(h0, u)

\* Subgraph::PushContextToQueue up to the point where wait has released
\* mtx_lock.  mtx_lock_.unlock() by a thread that does not own the mutex is
\* undefined: the mutex is released, or stays as it is.
PushContextToQueue(h) ==
  LET pushed == [h EXCEPT !.qSharedData = Append(@, h.slaveData),
                          !.pc["CPU0"] = "wait",
                          !.woken = FALSE,
                          !.step = Step(h, "CPU0", "push")]
  IN IF h.mtx_lock_ = "CPU0" THEN {[pushed EXCEPT !.mtx_lock_ = Nobody]}
     ELSE {[pushed EXCEPT !.mtx_lock_ = Nobody], pushed}

\* Ucontroller.wait returns, PushContextToQueue returns kTfLiteOk and
\* ContextHandler counts the convolution down
WaitReturns(h) ==
  LoopEnd([h EXCEPT !.number_of_conv_temp["CPU0"] = @ - 1,
                    !.woken = FALSE,
                    !.step = Step(h, "CPU0", "resume")],
          "CPU0")

\* Subgraph::CPUPopContextFromQueue
CPUPopContextFromQueue(h) ==
  IF h.qSharedData = <<>>
  THEN [h EXCEPT !.pc["CPU0"] = "done", !.status["CPU0"] = kTfLiteError,
                 !.step = Step(h, "CPU0", "pop")]
  ELSE LoopEnd([h EXCEPT
                  !.aliased = @ \cup {<<TensorOf("CPU0", h.idx["CPU0"]),
                                        h.contexts[Head(h.qSharedData)].tensor>>},
                  !.pops = Append(@, Head(h.qSharedData)),
                  !.qSharedData = Tail(@),
                  !.step = Step(h, "CPU0", "pop")],
               "CPU0")

\* mtx_lock_.lock() of GPUPopContextFromQueue, once the mutex is free
LockGate(h) ==
  [h EXCEPT !.mtx_lock_ = "GPU0", !.pc["GPU0"] = "pop",
            !.step = Step(h, "GPU0", "gate")]

\* Subgraph::GPUPopContextFromQueue after mtx_lock_.lock().  front() and
\* pop() on an empty queue are undefined: the process dies, or a garbage
\* pointer is returned.
GPUPopContextFromQueue(h) ==
  IF h.qSharedData = <<>>
  THEN {[h EXCEPT !.pc["GPU0"] = "done", !.status["GPU0"] = Crashed,
                  !.step = Step(h, "GPU0", "pop")],
        [h EXCEPT !.SlaveData = Garbage,
                  !.pops = Append(@, Garbage),
                  !.pc["GPU0"] = "copy",
                  !.step = Step(h, "GPU0", "pop")]}
  ELSE {[h EXCEPT !.SlaveData = Head(h.qSharedData),
                  !.pops = Append(@, Head(h.qSharedData)),
                  !.qSharedData = Tail(@),
                  !.pc["GPU0"] = "copy",
                  !.step = Step(h, "GPU0", "pop")]}

\* the loop of memcpy calls of ConcatContext has finished
Copied(h) ==
  [h EXCEPT !.pc["GPU0"] = "merged", !.step = Step(h, "GPU0", "copied")]

\* mutant of ConcatContext: the merged tensor is pushed back whenever a
\* convolution is pending
ConcatContextPushAlways(h) ==
  LET h1 == IF ~(h.number_of_conv_temp["GPU0"] <= 0)
            THEN [CreateSharedContext(h, "GPU0",
                                      TensorOf("GPU0", h.idx["GPU0"])) EXCEPT
                    !.qSharedData = Append(@, Len(h.contexts) + 1)]
            ELSE h
  IN LoopEnd([h1 EXCEPT !.woken = @ \/ h.pc["CPU0"] = "wait",
                        !.number_of_conv_temp["GPU0"] = @ - 1,
                        !.SlaveData = 0,
                        !.step = [Step(h, "GPU0", "merge") EXCEPT
                                    !.notified = TRUE]],
             "GPU0")

\* Subgraph::ConcatContext after the copy: the push of the merged tensor and
\* notify_one; then ContextHandler counts the convolution down
ConcatContext(h) ==
  LET h1 == IF ~(h.number_of_conv_temp["GPU0"] <= 1)
            THEN [CreateSharedContext(h, "GPU0",
                                      TensorOf("GPU0", h.idx["GPU0"])) EXCEPT
                    !.qSharedData = Append(@, Len(h.contexts) + 1)]
            ELSE h
  IN LoopEnd([h1 EXCEPT !.woken = @ \/ h.pc["CPU0"] = "wait",
                        !.number_of_conv_temp["GPU0"] = @ - 1,
                        !.SlaveData = 0,
                        !.step = [Step(h, "GPU0", "merge") EXCEPT
                                    !.notified = TRUE]],
             "GPU0")

\* the other variables stay as constructed
Handoff(h) ==
  /\ handoff' = h
  /\ UNCHANGED <<subgraphs_, used_tensor_and_index, heap, last, merge, worker>>

\* a worker that died takes the process with it
HandoffAlive == \A u \in Units : handoff.status[u] # Crashed

\* unit u is about to take the step pc
At(u, pc) == HandoffAlive /\ handoff.pc[u] = pc

InitHandoff ==
  /\ subgraphs_ = [i \in {0} |-> NewSubgraph(0, <<0>>, <<MaxNodes>>, <<1>>)]
  /\ used_tensor_and_index = <<>>
  /\ heap = [b \in BufferIds |-> 0]
  /\ last = NoCall
  /\ \E cpu \in CPUPlans, gpu \in GPUPlans, gate \in {Nobody, "CPU0"} :
       handoff = StartHandoff(cpu, gpu, gate)
  /\ merge = NoMerge
  /\ worker = NoWorker

CPUStartNode == At("CPU0", "node") /\ Handoff(StartNode(handoff, "CPU0"))

CPUOpInvoke == At("CPU0", "invoke") /\ Handoff(AfterOpInvoke2(handoff, "CPU0"))

CPUPush ==
  /\ At("CPU0", "push")
  /\ \E h \in PushContextToQueue(handoff) : Handoff(h)

CPUResume ==
  /\ At("CPU0", "wait")
  /\ handoff.woken
  /\ Handoff(WaitReturns(handoff))

\* wait returns although nobody has notified the condition variable
CPUSpuriousWakeup ==
  /\ At("CPU0", "wait")
  /\ ~handoff.woken
  /\ Handoff([handoff EXCEPT !.woken = TRUE, !.spurious = TRUE,
                             !.step = Step(handoff, "CPU0", "spurious")])

CPUPop == At("CPU0", "cpupop") /\ Handoff(CPUPopContextFromQueue(handoff))

GPUStartNode == At("GPU0", "node") /\ Handoff(StartNode(handoff, "GPU0"))

GPUOpInvoke == At("GPU0", "invoke") /\ Handoff(AfterOpInvoke2(handoff, "GPU0"))

\* lock() by the thread that owns the mutex is undefined; it blocks
GPULockGate ==
  /\ At("GPU0", "gate")
  /\ handoff.mtx_lock_ = Nobody
  /\ Handoff(LockGate(handoff))

GPUPop ==
  /\ At("GPU0", "pop")
  /\ \E h \in GPUPopContextFromQueue(handoff) : Handoff(h)

GPUCopy == At("GPU0", "copy") /\ Handoff(Copied(handoff))

GPUMerge == At("GPU0", "merged") /\ Handoff(ConcatContext(handoff))

NextHandoff ==
  \/ CPUStartNode
  \/ CPUOpInvoke
  \/ CPUPush
  \/ CPUResume
  \/ CPUSpuriousWakeup
  \/ CPUPop
  \/ GPUStartNode
  \/ GPUOpInvoke
  \/ GPULockGate
  \/ GPUPop
  \/ GPUCopy
  \/ GPUMerge

\* the steps of the CPU thread and of the GPU thread
CPUStep == CPUStartNode \/ CPUOpInvoke \/ CPUPush \/ CPUResume \/ CPUPop
GPUStep ==
  GPUStartNode \/ GPUOpInvoke \/ GPULockGate \/ GPUPop \/ GPUCopy \/ GPUMerge

SpecHandoff == InitHandoff /\ [][NextHandoff]_vars

\* the scheduler lets each worker run when it can; a wake-up without
\* notification need not happen
SpecHandoffFair ==
  SpecHandoff /\ WF_vars(CPUStep) /\ WF_vars(GPUStep)

-----------------------------------------------------------------------------
(* The copy loop of Subgraph::ConcatContext.  rc_tensor is the output of the *)
(* GPU subgraph's CONCATENATION node, whose last dimension is the sum of the *)
(* last dimensions of the node's two inputs; sd_tensor is the tensor of the  *)
(* SharedContext popped from the queue.  Buffers are functions from element  *)
(* offsets, counted from 0 in floats, to values; every element starts with a *)
(* value of its own, so that a copy to or from a wrong place shows.          *)

MaxSpatial == 2
MaxChannels == 3

RECURSIVE Product(_)
Product(dims) == IF dims = <<>> THEN 1 ELSE Head(dims) * Product(Tail(dims))

\* the tensors at the call: in0 and in1 are the channel counts of the
\* CONCATENATION node's inputs, sd_ch that of the tensor sent
StartMerge(h, w, in0, in1, sd_ch) ==
  LET rc == [i \in 0..(h * w * (in0 + in1) - 1) |-> <<"rc", i>>] IN
  [rc_dims |-> <<1, h, w, in0 + in1>>,
   sd_dims |-> <<1, h, w, sd_ch>>,
   concat_tensor_filter |-> in1,
   data_send |-> [j \in 0..(h * w * sd_ch - 1) |-> <<"sd", j>>],
   data_recieve |-> rc,
   \* history: data_recieve at the call, the number of memcpy calls made, a
   \* memcpy wrote past the end of rc_tensor's buffer, the call has returned
   before |-> rc,
   copies |-> 0,
   overrun |-> FALSE,
   returned |-> FALSE]

\* memcpy(data_recieve + dst, data_send + src, sizeof(float) * len), one
\* float at a time; a write outside the buffer is undefined
RECURSIVE Memcpy(_, _, _, _)
Memcpy(m, dst, src, len) ==
  IF len <= 0 THEN m
  ELSE LET v == IF src \in DOMAIN m.data_send THEN m.data_send[src]
                ELSE Garbage
           m1 == IF dst \in DOMAIN m.data_recieve
                 THEN [m EXCEPT !.data_recieve[dst] = v]
                 ELSE [m EXCEPT !.overrun = TRUE]
       IN Memcpy(m1, dst + 1, src + 1, len - 1)

\* for(int n=0; n<tensor_data_per_ch; n++) memcpy(...)
RECURSIVE CopyLoop(_, _, _, _, _, _)
CopyLoop(m, n, tensor_data_per_ch, ch_st, ch_size, tensor_sd_ch_size) ==
  IF n >= tensor_data_per_ch THEN m
  ELSE CopyLoop([Memcpy(m, ch_st + n * ch_size, n * tensor_sd_ch_size,
                        tensor_sd_ch_size) EXCEPT !.copies = @ + 1],
                n + 1, tensor_data_per_ch, ch_st, ch_size, tensor_sd_ch_size)

\* mutant of ConcatContextCopy: the copy starts at the channel count of the
\* tensor sent
ConcatContextCopyAtSent(m) ==
  LET tensor_rc_ch_size ==
        m.rc_dims[Len(m.rc_dims)] - m.concat_tensor_filter
      tensor_sd_ch_size == m.sd_dims[Len(m.sd_dims)]
      tensor_data_size == Product(m.rc_dims)
      ch_size == tensor_rc_ch_size + m.concat_tensor_filter
      ch_st == tensor_sd_ch_size
      tensor_data_per_ch == tensor_data_size \div ch_size
  IN [CopyLoop(m, 0, tensor_data_per_ch, ch_st, ch_size, tensor_sd_ch_size)
        EXCEPT !.returned = TRUE]

\* Subgraph::ConcatContext up to the end of the copy loop
ConcatContextCopy(m) ==
  LET tensor_rc_ch_size ==
        m.rc_dims[Len(m.rc_dims)] - m.concat_tensor_filter
      tensor_sd_ch_size == m.sd_dims[Len(m.sd_dims)]
      tensor_data_size == Product(m.rc_dims)
      ch_size == tensor_rc_ch_size + m.concat_tensor_filter
      ch_st == tensor_rc_ch_size
      tensor_data_per_ch == tensor_data_size \div ch_size
  IN [CopyLoop(m, 0, tensor_data_per_ch, ch_st, ch_size, tensor_sd_ch_size)
        EXCEPT !.returned = TRUE]

InitMerge ==
  /\ subgraphs_ = [i \in {0} |-> NewSubgraph(0, <<0>>, <<MaxNodes>>, <<1>>)]
  /\ used_tensor_and_index = <<>>
  /\ heap = [b \in BufferIds |-> 0]
  /\ last = NoCall
  /\ handoff = NoHandoff
  /\ worker = NoWorker
  /\ \E h \in 1..MaxSpatial, w \in 1..MaxSpatial, in0 \in 1..MaxChannels,
        in1 \in 1..MaxChannels, sd_ch \in 1..MaxChannels :
       merge = StartMerge(h, w, in0, in1, sd_ch)

DoConcatContext ==
  /\ ~merge.returned
  /\ merge' = ConcatContextCopy(merge)
  /\ UNCHANGED <<subgraphs_, used_tensor_and_index, heap, last, handoff, worker>>

NextMerge == DoConcatContext

SpecMerge == InitMerge /\ [][NextMerge]_vars

-----------------------------------------------------------------------------
(* A convolution split between the two units: one interpreter runs on the  *)
(* GPU with ratio r, the other on the CPU with ratio 10 - r; both rewrite   *)
(* the same model, and the GPU merges the CPU's slice into its              *)
(* concatenation output.                                                    *)

SplitFilterCounts == {4, 5, 10}
\* the two interpreters, named by the unit each runs on
GPUSide == "GPU0"
CPUSide == "CPU0"
SplitUnits == {GPUSide, CPUSide}

InitSplit ==
  /\ \E filters \in SplitFilterCounts :
       subgraphs_ = [i \in SplitUnits |->
                       [SplitSubgraph(filters) EXCEPT !.id = i]]
  /\ used_tensor_and_index = <<>>
  /\ heap = [b \in BufferIds |-> 0]
  /\ last = NoCall
  /\ handoff = NoHandoff
  /\ merge = NoMerge
  /\ worker = NoWorker

\* the client gives the GPU interpreter the ratio r and the CPU interpreter
\* the ratio 10 - r
DoSetComplementaryRatios ==
  /\ \A i \in SplitUnits : subgraphs_[i].partitioning_plan = 0
  /\ \E r \in Ratios :
       /\ subgraphs_' =
            [i \in SplitUnits |->
               SetPartitioning(subgraphs_[i],
                               IF i = GPUSide THEN r ELSE 10 - r).g]
       /\ last' = [NoCall EXCEPT !.op = "SetPartitioning", !.args = <<r>>]
  /\ UNCHANGED <<heap, used_tensor_and_index, handoff, merge, worker>>

\* one of the interpreters applies its delegate, once
DoRewrite ==
  /\ merge = NoMerge
  /\ \E i \in SplitUnits :
       /\ subgraphs_[i].partitioning_plan # 0
       /\ subgraphs_[i].rewritten = <<>>
       /\ \E r \in {ModifyGraphWithDelegate(subgraphs_[i], DStatic)} :
            ReturnedFrom(i, "ModifyGraphWithDelegate", <<DStatic>>, r, heap)

\* the conv's output channels are its filters; the concatenation's output
\* holds the channels of its two inputs
FiltersOf(g) == g.tensors_[NodeAt(g, 0).inputs[2]].dims[1]
ConcatSecondInputChannels(g) == g.tensors_[NodeAt(g, 1).inputs[2]].dims[4]

\* the GPU arrives at the concatenation with the CPU's slice in SlaveData
DoMergeSplit ==
  /\ merge = NoMerge
  /\ \A i \in SplitUnits : subgraphs_[i].rewritten # <<>>
  /\ \E h \in 1..MaxSpatial :
       merge' = ConcatContextCopy(
                  StartMerge(h, 1, FiltersOf(subgraphs_[GPUSide]),
                             ConcatSecondInputChannels(subgraphs_[GPUSide]),
                             FiltersOf(subgraphs_[CPUSide])))
  /\ UNCHANGED <<subgraphs_, used_tensor_and_index, heap, last, handoff, worker>>

NextSplit ==
  \/ DoSetComplementaryRatios
  \/ DoRewrite
  \/ DoMergeSplit

SpecSplit == InitSplit /\ [][NextSplit]_vars

-----------------------------------------------------------------------------
(* A Worker and its jobs.  The Worker's thread runs Worker::Work: it waits   *)
(* until the Worker's state is WORKING and then goes through the jobs,       *)
(* invoking the subgraphs of every job of its own resource type.  The        *)
(* client gives jobs and changes the Worker's state while the thread waits   *)
(* (Work holds worker_lock at all other times), and allocates subgraphs.     *)

ResourceTypes == {"CPU", "GPU"}
INIT_WORK == "INIT_WORK"
WORKING == "WORKING"
DONE == "DONE"
\* the states of a job other than DONE
PendingJobStates == {"READY", "INVOKE"}
\* the subgraph ids a job may list
JobSubgraphs == {<<0>>, <<1, 2>>}

\* Worker::Worker(wType, w_id, interpreter): the thread is started and
\* reaches the wait of Work
NewWorker(wType) ==
  [type |-> wType, state |-> INIT_WORK, have_job |-> FALSE, jobs |-> <<>>,
   pc |-> "wait", i |-> 0, j |-> 0,
   \* Interpreter::LockJobs is held by the Worker
   jobs_locked |-> FALSE,
   \* history: the jobs (by position) a subgraph of which Work has invoked
   invoked |-> {},
   \* history: the jobs (by position) for which Work has gone past the
   \* statement on the job's state that follows an invocation
   passed |-> {}]

InitWorker ==
  /\ subgraphs_ = [i \in SubgraphIds |-> BuildSubgraph(i, KConv, 1)]
  /\ used_tensor_and_index = <<>>
  /\ heap = [x \in BufferIds |-> 0]
  /\ last = NoCall
  /\ handoff = NoHandoff
  /\ merge = NoMerge
  /\ \E wType \in ResourceTypes : worker = NewWorker(wType)

\* Worker::GiveJob
GiveJob(w, new_job) ==
  [w EXCEPT !.have_job = TRUE, !.jobs = Append(@, new_job)]

\* Worker::ChangeStateTo
ChangeStateTo(w, new_state) == [w EXCEPT !.state = new_state]

\* the statement "jobs[i]->state == JobState::DONE;" of Work: a comparison
\* whose value is dropped
JobStateStatement(job) == job

\* the unit a Worker of resource type wType invokes subgraphs as
UnitOf(wType) == IF wType = "CPU" THEN "CPU0" ELSE "GPU0"

WorkerOnly == UNCHANGED <<subgraphs_, used_tensor_and_index, heap, last,
                          handoff, merge>>

DoGiveJob ==
  /\ Alive
  /\ worker.pc = "wait"
  /\ Len(worker.jobs) < MaxJobs
  /\ \E resource_type \in ResourceTypes, subgraphs \in JobSubgraphs,
        state \in PendingJobStates :
       worker' = GiveJob(worker, [job_id |-> Len(worker.jobs),
                                  resource_type |-> resource_type,
                                  subgraphs |-> subgraphs,
                                  state |-> state])
  /\ WorkerOnly

DoChangeStateTo ==
  /\ Alive
  /\ worker.pc = "wait"
  /\ \E new_state \in {INIT_WORK, WORKING} :
       worker' = ChangeStateTo(worker, new_state)
  /\ WorkerOnly

\* worker_cv.wait returns with worker_lock held once the state is WORKING
WorkWake ==
  /\ Alive
  /\ worker.pc = "wait"
  /\ worker.state = WORKING
  /\ worker' = [worker EXCEPT !.pc = "jobs", !.i = 0]
  /\ WorkerOnly

\* the head of the loop over the jobs, and the test of the resource type
WorkJob ==
  /\ Alive
  /\ worker.pc = "jobs"
  /\ worker' =
       IF worker.i >= Len(worker.jobs) THEN [worker EXCEPT !.pc = "wait"]
       ELSE IF worker.jobs[worker.i + 1].resource_type = worker.type
       THEN [worker EXCEPT !.pc = "graphs", !.j = 0]
       ELSE [worker EXCEPT !.i = @ + 1]
  /\ WorkerOnly

\* the head of the loop over the subgraphs of the job, and the Invoke of
\* the next one
WorkInvoke ==
  /\ Alive
  /\ worker.pc = "graphs"
  /\ LET job == worker.jobs[worker.i + 1] IN
     IF worker.j >= Len(job.subgraphs)
     THEN /\ worker' = [worker EXCEPT !.pc = "jobs", !.i = @ + 1]
          /\ WorkerOnly
     ELSE LET id == job.subgraphs[worker.j + 1] IN
          \E r \in {Invoke([subgraphs_[id] EXCEPT !.events = <<>>], heap,
                            NoCancellation, UnitOf(worker.type))} :
             /\ subgraphs_' = [subgraphs_ EXCEPT
                                 ![id] = [r.g EXCEPT !.events = <<>>]]
             /\ heap' = r.h
             /\ last' = [NoCall EXCEPT !.op = "Worker::Work", !.st = r.st,
                                        !.k = id]
             /\ worker' = [worker EXCEPT !.pc = "lock",
                                         !.invoked = @ \cup {worker.i + 1}]
             /\ UNCHANGED <<used_tensor_and_index, handoff, merge>>

\* interpreter_->LockJobs()
WorkLockJobs ==
  /\ Alive
  /\ worker.pc = "lock"
  /\ worker' = [worker EXCEPT !.pc = "state", !.jobs_locked = TRUE]
  /\ WorkerOnly

WorkJobState ==
  /\ Alive
  /\ worker.pc = "state"
  /\ worker' = [worker EXCEPT
                  !.pc = "unlock",
                  !.jobs[worker.i + 1] = JobStateStatement(@),
                  !.passed = @ \cup {worker.i + 1}]
  /\ WorkerOnly

\* interpreter_->UnlockJobs(), and the end of the loop body
WorkUnlockJobs ==
  /\ Alive
  /\ worker.pc = "unlock"
  /\ worker' = [worker EXCEPT !.pc = "graphs", !.jobs_locked = FALSE,
                              !.j = @ + 1]
  /\ WorkerOnly

NextWorker ==
  \/ InterpAllocateTensors
  \/ DoGiveJob
  \/ DoChangeStateTo
  \/ WorkWake
  \/ WorkJob
  \/ WorkInvoke
  \/ WorkLockJobs
  \/ WorkJobState
  \/ WorkUnlockJobs

SpecWorker == InitWorker /\ [][NextWorker]_vars

-----------------------------------------------------------------------------
(* Properties of one subgraph (specification Spec) *)

IsInvoke(ev) == ev.e = "invoke"
InvokeEvents == SelectSeq(last.events, IsInvoke)

\* C3: Subgraph::Invoke called while state_ is kStateUninvokable returns an
\* error, prepares and invokes no node, and leaves the subgraph (state_ and
\* every tensor) and the buffer contents unchanged.
C3_InvokeWhileUninvokable ==
  [][(last'.op = "Invoke" /\ primary.state_ = kStateUninvokable)
       => /\ last'.st = kTfLiteError
          /\ last'.events = <<>>
          /\ subgraphs_' = subgraphs_
          /\ heap' = heap]_vars

\* an Invoke on a consistent, Uninvokable subgraph with nodes has returned
C3_Witness ==
  /\ last.op = "Invoke"
  /\ last.st = kTfLiteError
  /\ primary.state_ = kStateUninvokable
  /\ primary.consistent_
  /\ primary.execution_plan_ # <<>>

\* C5: within one Subgraph::Invoke the kernels are invoked strictly in
\* execution_plan_ order: the n-th kernel invoked is the node at plan index
\* n-1, every kernel before the last one invoked returned Ok, and so each
\* plan index is invoked at most once per call.
C5_InvokedInPlanOrder ==
  last.op = "Invoke" =>
    /\ Len(InvokeEvents) <= Len(primary.execution_plan_)
    /\ \A n \in 1..Len(InvokeEvents) :
         /\ InvokeEvents[n].idx = n - 1
         /\ InvokeEvents[n].node = primary.execution_plan_[n]
         /\ (n < Len(InvokeEvents) => InvokeEvents[n].ok)
    /\ (last.st = kTfLiteOk =>
          Len(InvokeEvents) = Len(primary.execution_plan_))

\* an Invoke that ran the kernels of a plan of two nodes has returned Ok
C5_Witness ==
  /\ last.op = "Invoke"
  /\ last.st = kTfLiteOk
  /\ Len(primary.execution_plan_) >= 2
  /\ Len(InvokeEvents) = Len(primary.execution_plan_)

\* tensors the nodes of the execution plan read or write
TensorsOfPlan(g) ==
  UNION {SeqToSet(NodeAt(g, g.execution_plan_[n]).inputs)
           \cup SeqToSet(NodeAt(g, g.execution_plan_[n]).outputs) :
         n \in 1..Len(g.execution_plan_)}

NoDynamicTensors(g) ==
  \A t \in TensorIds : g.tensors_[t].allocation_type = kTfLiteArenaRw

\* the client has not released the arena memory
NotReleased(g) == ~g.memory_planner_ \/ g.has_nonpersistent_memory

\* C2: whenever an operation has returned, state_ is kStateInvokable or
\* kStateInvokableAndImmutable only if every tensor the execution plan
\* references has a buffer from the memory planner.  (Stated for subgraphs
\* without dynamic tensors whose arena memory the client has not released.)
C2_InvokableOnlyWhenAllocated ==
  (/\ primary.state_ \in {kStateInvokable, kStateInvokableAndImmutable}
   /\ NoDynamicTensors(primary)
   /\ NotReleased(primary))
    => \A t \in TensorsOfPlan(primary) : primary.tensors_[t].data # NullPtr

\* the call changed the dims of some tensor
DimsChanged ==
  \E t \in TensorIds : primary'.tensors_[t].dims # primary.tensors_[t].dims

\* C12: on a mutable subgraph AddNodeWithParameters, and a ResizeInputTensor
\* that changes the tensor's dims, set state_ to kStateUninvokable, and
\* every Invoke made after such a mutation fails until an AllocateTensors
\* has succeeded.
C12_MutationMakesUninvokable ==
  [][/\ (/\ last'.op = "AddNodeWithParameters"
         /\ primary.state_ # kStateInvokableAndImmutable) =>
          primary'.state_ = kStateUninvokable
     /\ (/\ last'.op = "ResizeInputTensor"
         /\ primary.state_ # kStateInvokableAndImmutable
         /\ DimsChanged) =>
          primary'.state_ = kStateUninvokable
     /\ (last'.op = "Invoke" /\ primary.mutated) =>
          last'.st # kTfLiteOk]_vars

\* ResizeInputTensor was called with the dims the tensor has, on a tensor
\* that has a buffer (last'.args holds the tensor index and the dims)
ResizeToSameDims ==
  /\ last'.op = "ResizeInputTensor"
  /\ last'.args[1] \in TensorIds
  /\ primary.tensors_[last'.args[1]].dims = last'.args[2]
  /\ primary.tensors_[last'.args[1]].data # NullPtr

\* the last call was such a ResizeInputTensor and returned kTfLiteOk (a
\* resize that took effect leaves the input tensor without a buffer)
ResizedToSameDims ==
  /\ last.op = "ResizeInputTensor"
  /\ last.st = kTfLiteOk
  /\ last.args[1] \in TensorIds
  /\ primary.tensors_[last.args[1]].dims = last.args[2]
  /\ primary.tensors_[last.args[1]].data # NullPtr

\* C14 as stated: ResizeInputTensor with the tensor's current dims, on a
\* tensor that has a buffer, returns kTfLiteOk in whatever state the
\* subgraph is in and changes nothing, and the Invoke that follows succeeds.
C14_AsClaimed ==
  [][/\ ResizeToSameDims =>
          /\ last'.st = kTfLiteOk
          /\ primary' = primary
          /\ heap' = heap
     /\ (ResizedToSameDims /\ last'.op = "Invoke") =>
          last'.st = kTfLiteOk]_vars

\* C14: ResizeInputTensor with the tensor's current dims, on a tensor that
\* has a buffer, changes nothing (state_, tensors, plan, delegates, buffers).
\* It returns kTfLiteOk, except on an immutable subgraph that has no
\* pre-delegation plan, where it returns kTfLiteError.  The Invoke that
\* follows fails as not ready if state_ was kStateUninvokable: it can
\* succeed only if the subgraph was invokable before the call.
C14_NoOpResize ==
  [][/\ ResizeToSameDims =>
          /\ primary' = primary
          /\ heap' = heap
          /\ last'.st =
               IF /\ primary.state_ = kStateInvokableAndImmutable
                  /\ primary.pre_delegation_execution_plan_ = <<>>
               THEN kTfLiteError ELSE kTfLiteOk
     /\ (/\ ResizedToSameDims
         /\ last'.op = "Invoke"
         /\ primary.state_ = kStateUninvokable) =>
          last'.st = kTfLiteError /\ primary' = primary]_vars

\* a no-op resize of the input of an allocated subgraph with a node
C14_Witness ==
  /\ ResizedToSameDims
  /\ primary.state_ = kStateInvokable
  /\ primary.execution_plan_ # <<>>

\* AllocateTensors is called right after another AllocateTensors
SecondAllocateTensors ==
  last.op = "AllocateTensors" /\ last'.op = "AllocateTensors"

\* what AllocateTensors must leave as it is for the call to be idempotent
SameAllocation ==
  /\ primary'.state_ = primary.state_
  /\ primary'.next_execution_plan_index_to_prepare_ =
       primary.next_execution_plan_index_to_prepare_
  /\ primary'.next_execution_plan_index_to_plan_allocation_ =
       primary.next_execution_plan_index_to_plan_allocation_
  /\ \A t \in TensorIds :
       primary'.tensors_[t].data = primary.tensors_[t].data
  /\ heap' = heap

IsCancelCheck(ev) == ev.e = "cancelled"
CancelChecks == SelectSeq(last.events, IsCancelCheck)

\* the last call was an Invoke with a cancellation function installed
InvokeWithCancellation ==
  last.op = "Invoke" /\ last.args[1] # NoCancellation

\* the last call was an Invoke that the cancellation function aborted
Cancelled ==
  /\ InvokeWithCancellation
  /\ Len(CancelChecks) > 0
  /\ CancelChecks[Len(CancelChecks)].ok

\* C17: when the cancellation function first answers true at the check made
\* for plan index k, Invoke returns an error, the nodes at the plan indices
\* below k have been invoked once each, in order, and no other node has
\* been invoked; the function is called once for each plan index the loop
\* reaches, in order, and answers true only at k.
C17_CancellationHaltsAtNode ==
  InvokeWithCancellation =>
    /\ \A n \in 1..Len(CancelChecks) :
         /\ CancelChecks[n].idx = n - 1
         /\ CancelChecks[n].ok <=> (n - 1 = last.args[1])
    /\ Len(InvokeEvents) <= Len(CancelChecks)
    /\ Len(CancelChecks) <= Len(InvokeEvents) + 1
    /\ Cancelled =>
         /\ last.st = kTfLiteError
         /\ Len(CancelChecks) = last.args[1] + 1
         /\ Len(InvokeEvents) = last.args[1]
         /\ \A n \in 1..Len(InvokeEvents) :
              /\ InvokeEvents[n].idx = n - 1
              /\ InvokeEvents[n].ok

\* an Invoke was cancelled at its second node, after the first was invoked
C17_Witness ==
  /\ Cancelled
  /\ last.args[1] = 1
  /\ Len(InvokeEvents) = 1

\* C18: when Invoke returns because the cancellation function answered
\* true, state_ is kStateUninvokable, and an Invoke called right after it
\* returns an error.
C18_CancelledIsUninvokable ==
  [][/\ Cancelled' => primary'.state_ = kStateUninvokable
     /\ (Cancelled /\ last'.op = "Invoke") => last'.st # kTfLiteOk]_vars

\* a kernel's prepare or invoke returned an error
IsOpFailure(ev) == ev.e \in {"prepare", "invoke"} /\ ~ev.ok

\* the last call was an Invoke in which a kernel's invoke, or a kernel's
\* prepare run by the loop, returned an error
OpFailed ==
  /\ last.op = "Invoke"
  /\ last.st # Crashed
  /\ \E n \in 1..Len(last.events) : IsOpFailure(last.events[n])

\* C19: when a kernel's invoke, or the preparation of a node made by the
\* loop of Invoke, fails, Invoke returns an error, the failure is the last
\* thing the call did (no later node is prepared or invoked), and state_ is
\* what it was when Invoke was called.
C19_OpFailureAbortsInvoke ==
  [][OpFailed' =>
       /\ last'.st = kTfLiteError
       /\ \A n \in 1..Len(last'.events) :
            IsOpFailure(last'.events[n]) <=> (n = Len(last'.events))
       /\ primary'.state_ = primary.state_]_vars

\* an Invoke ran the first node and failed to prepare the second
C19_Witness ==
  /\ OpFailed
  /\ Len(InvokeEvents) = 1
  /\ last.events[Len(last.events)].e = "prepare"
  /\ last.events[Len(last.events)].idx = 1
  /\ primary.state_ = kStateInvokable

\* the node at plan index idx was prepared between positions n and m of the
\* history of the last call
PreparedBetween(n, m, idx) ==
  \E q \in (n + 1)..(m - 1) :
     /\ last.events[q].e = "prepare"
     /\ last.events[q].idx = idx
     /\ last.events[q].ok

\* C34: in Subgraph::Invoke, when a kernel has resized a dynamic output
\* tensor, has_dynamic_tensors_ is set and every node invoked after it was
\* prepared again, and planned by the memory planner, after the resize and
\* before its own invocation; every kernel is invoked with its plan index
\* below next_execution_plan_index_to_prepare_; and
\* next_execution_plan_index_to_plan_allocation_ never exceeds
\* next_execution_plan_index_to_prepare_.
C34_ResizeForcesPreparation ==
  /\ primary.next_execution_plan_index_to_plan_allocation_ <=
       primary.next_execution_plan_index_to_prepare_
  /\ last.op = "Invoke" =>
       \A n \in 1..Len(last.events) :
          IsInvoke(last.events[n]) =>
            /\ last.events[n].idx < last.events[n].to_prepare
            /\ last.events[n].to_plan <= last.events[n].to_prepare
            /\ last.events[n].resized =>
                 /\ last.events[n].has_dynamic
                 /\ \A m \in (n + 1)..Len(last.events) :
                      IsInvoke(last.events[m]) =>
                        /\ PreparedBetween(n, m, last.events[m].idx)
                        /\ last.events[m].to_plan > last.events[m].idx

\* an Invoke has returned Ok in which the first kernel resized its dynamic
\* output and a second kernel was invoked after it
C34_Witness ==
  /\ last.op = "Invoke"
  /\ last.st = kTfLiteOk
  /\ Len(InvokeEvents) = 2
  /\ InvokeEvents[1].resized
  /\ InvokeEvents[2].ok

-----------------------------------------------------------------------------
(* Properties of allocation and delegation (specification SpecDelegates) *)

\* AllocateTensors was called on a consistent, Uninvokable subgraph
AllocateFromUninvokable ==
  /\ last'.op = "AllocateTensors"
  /\ primary.state_ = kStateUninvokable
  /\ primary.consistent_

\* plan indices whose node has a dynamic output tensor
DynamicNodes(g) ==
  {n \in 0..(Len(g.execution_plan_) - 1) :
     HasDynamicTensor(g, NodeAt(g, PlanAt(g.execution_plan_, n)).outputs)}

\* the plan index up to which preparation runs: the first node with a
\* dynamic output, or the last node
LastPrepared(g) ==
  IF DynamicNodes(g) = {} THEN Len(g.execution_plan_) - 1
  ELSE CHOOSE n \in DynamicNodes(g) : \A m \in DynamicNodes(g) : n <= m

\* the plan is prepared and its arena tensors allocated up to plan index n
\* and no further (the indices are 1 after the preparation of an empty plan)
PreparedAndAllocatedUpTo(g, n) ==
  /\ g.next_execution_plan_index_to_prepare_ = Max(n, 0) + 1
  /\ g.next_execution_plan_index_to_plan_allocation_ = Max(n, 0) + 1
  /\ \A t \in PlannedUpTo(g, n) :
       g.tensors_[t].allocation_type = kTfLiteArenaRw
         => g.tensors_[t].data # NullPtr

\* C4 as claimed: from Uninvokable on a consistent subgraph AllocateTensors
\* leaves state_ Invokable exactly when it returns Ok with the whole plan
\* prepared and allocated, and on any error state_ stays Uninvokable.
C4_AsClaimed ==
  [][AllocateFromUninvokable =>
       /\ (primary'.state_ = kStateInvokable) <=>
            (/\ last'.st = kTfLiteOk
             /\ PreparedAndAllocatedUpTo(primary',
                                         Len(primary'.execution_plan_) - 1))
       /\ (last'.st # kTfLiteOk => primary'.state_ = kStateUninvokable)]_vars

\* C4 (amended): from Uninvokable on a consistent subgraph, AllocateTensors
\* returns Ok only with state_ Invokable, or InvokableAndImmutable when it
\* re-applied delegates, and the plan prepared and allocated up to its first
\* node with a dynamic output (the whole plan when there is none); with no
\* delegates to redo, state_ becomes Invokable exactly when it returns Ok and
\* a failure returns kTfLiteError with state_ still Uninvokable; when
\* RedoAllDelegates fails with kTfLiteDelegateError the delegates are removed
\* and state_ is Invokable, and with any other error state_ is Invokable or
\* Uninvokable as ModifyGraphWithDelegate left it.
C4_AllocateTensors ==
  [][AllocateFromUninvokable =>
       /\ last'.st = kTfLiteOk =>
            /\ primary'.state_ \in {kStateInvokable, kStateInvokableAndImmutable}
            /\ PreparedAndAllocatedUpTo(primary', LastPrepared(primary'))
       /\ primary'.state_ = kStateInvokableAndImmutable =>
            (primary.delegates_undone_ /\ last'.st = kTfLiteOk)
       /\ ~primary.delegates_undone_ =>
            /\ (primary'.state_ = kStateInvokable) <=> (last'.st = kTfLiteOk)
            /\ last'.st \in {kTfLiteOk, kTfLiteError}
            /\ (last'.st # kTfLiteOk => primary'.state_ = kStateUninvokable)
       /\ last'.st = kTfLiteDelegateError =>
            /\ primary.delegates_undone_
            /\ primary'.state_ = kStateInvokable
            /\ primary'.delegates_applied_ = <<>>
            /\ ~primary'.delegates_undone_]_vars

\* AllocateTensors has re-applied a delegate that failed and was rolled
\* back: it returned kTfLiteDelegateError and the subgraph is Invokable
C4_Witness ==
  /\ last.op = "AllocateTensors"
  /\ last.st = kTfLiteDelegateError
  /\ primary.state_ = kStateInvokable
  /\ primary.consistent_

\* ModifyGraphWithDelegate was called and a delegate application failed in
\* it: reset_delegation_if_not_ok was given a status other than kTfLiteOk
DelegationFailed ==
  /\ last'.op = "ModifyGraphWithDelegate"
  /\ \E n \in 1..Len(last'.events) : IsRollback(last'.events[n])

\* the execution plan the subgraph had before any delegate was applied
OriginalPlan(g) ==
  IF g.pre_delegation_execution_plan_ # <<>>
  THEN g.pre_delegation_execution_plan_ ELSE g.execution_plan_

\* C9: when a delegate application fails inside ModifyGraphWithDelegate (the
\* delegate's Prepare or the re-allocation after it returned non-Ok), then on
\* return execution_plan_ is the pre-delegation plan, nodes_and_registration_
\* holds no more nodes than the client added, delegates_applied_ does not
\* hold the delegate (it is empty) and the call returns kTfLiteDelegateError.
C9_FullRollback ==
  [][DelegationFailed =>
       /\ primary'.execution_plan_ = OriginalPlan(primary)
       /\ Len(primary'.nodes_and_registration_) <= UserNodes(primary)
       /\ primary'.delegates_applied_ = <<>>
       /\ last'.st = kTfLiteDelegateError]_vars

\* ModifyGraphWithDelegate returned kTfLiteOk for a delegate without
\* kTfLiteDelegateFlagsAllowDynamicTensors (last'.inner is the delegate)
StaticDelegateApplied ==
  /\ last'.op = "ModifyGraphWithDelegate"
  /\ last'.st = kTfLiteOk
  /\ ~AllowDynamicTensors(last'.inner)

\* the call re-applied the delegates undone by a resize (RedoAllDelegates
\* calls ModifyGraphWithDelegate for each of them)
DelegatesRedone ==
  /\ primary.delegates_undone_
  /\ last'.op \in {"AllocateTensors", "ModifyGraphWithDelegate"}

LastOf(s) == s[Len(s)]

\* C11: state_ is kStateInvokableAndImmutable after, and only after, a
\* successful ModifyGraphWithDelegate with a delegate that does not allow
\* dynamic tensors (called by the client, or by RedoAllDelegates on the
\* client's behalf); on that success the delegate is the last element of
\* delegates_applied_ and every tensor of the plan has a buffer.  A
\* successful ModifyGraphWithDelegate with a delegate that allows dynamic
\* tensors does not leave the graph immutable.
C11_ImmutableAfterStaticDelegate ==
  [][/\ StaticDelegateApplied =>
          /\ primary'.state_ = kStateInvokableAndImmutable
          /\ primary'.delegates_applied_ # <<>>
          /\ LastOf(primary'.delegates_applied_) = last'.inner
          /\ \A t \in TensorsOfPlan(primary') :
                primary'.tensors_[t].data # NullPtr
     /\ (/\ primary'.state_ = kStateInvokableAndImmutable
         /\ primary.state_ # kStateInvokableAndImmutable) =>
          /\ StaticDelegateApplied \/ DelegatesRedone
          /\ primary'.delegates_applied_ # <<>>
          /\ ~AllowDynamicTensors(LastOf(primary'.delegates_applied_))
     /\ (/\ last'.op = "ModifyGraphWithDelegate"
         /\ last'.st = kTfLiteOk
         /\ AllowDynamicTensors(last'.inner)) =>
          primary'.state_ # kStateInvokableAndImmutable]_vars

\* a static delegate has replaced a node and the graph is immutable
C11_Witness ==
  /\ last.op = "ModifyGraphWithDelegate"
  /\ last.st = kTfLiteOk
  /\ last.inner = DStatic
  /\ primary.state_ = kStateInvokableAndImmutable
  /\ \E n \in 1..Len(primary.execution_plan_) :
        NodeAt(primary, primary.execution_plan_[n]).kind = KDelegate

\* the step is a ResizeInputTensor of a valid tensor to dims it does not have
ResizeChangesDims ==
  /\ last'.op = "ResizeInputTensor"
  /\ last'.args[1] \in TensorIds
  /\ primary.tensors_[last'.args[1]].dims # last'.args[2]

\* the step is a ResizeInputTensor that changes the dims of a tensor of a
\* graph a delegate has made immutable
ResizeOfImmutable ==
  /\ ResizeChangesDims
  /\ primary.state_ = kStateInvokableAndImmutable
  /\ primary.delegates_applied_ # <<>>

\* the step is an AllocateTensors that returned kTfLiteOk on a graph whose
\* delegates were undone
AllocateRedoes ==
  /\ last'.op = "AllocateTensors"
  /\ last'.st = kTfLiteOk
  /\ primary.delegates_undone_

\* the delegates are undone: the plan is the pre-delegation plan, the graph
\* is not invokable and the delegates are remembered as undone
Undone ==
  /\ primary'.execution_plan_ = primary.pre_delegation_execution_plan_
  /\ primary'.state_ = kStateUninvokable
  /\ primary'.delegates_undone_
  /\ primary'.delegates_applied_ = primary.delegates_applied_

\* the delegates are applied again: the same ones in the same order, and the
\* graph is immutable
Redone ==
  /\ primary'.delegates_applied_ = primary.delegates_applied_
  /\ ~primary'.delegates_undone_
  /\ primary'.state_ = kStateInvokableAndImmutable

FindsDynamicTensor(g) ==
  LET p == PrepareOpsStartingAt([g EXCEPT !.state_ = kStateInvokable], 0,
                                g.execution_plan_, 0)
  IN p.st = kTfLiteOk /\ p.g.has_dynamic_tensors_

\* the step is a ModifyGraphWithDelegate, with a delegate that does not allow
\* dynamic tensors, of a graph that is not immutable, has no delegate to
\* apply again and in which preparation finds a dynamic-sized tensor
StaticDelegateOnDynamicGraph ==
  /\ last'.op = "ModifyGraphWithDelegate"
  /\ ~AllowDynamicTensors(last'.inner)
  /\ primary.state_ # kStateInvokableAndImmutable
  /\ ~primary.delegates_undone_
  /\ FindsDynamicTensor(primary)

\* the tensors of the nodes of the plan up to its first node with a dynamic
\* output
TensorsUpToDynamic(g) ==
  UNION {SeqToSet(NodeAt(g, g.execution_plan_[n]).inputs)
           \cup SeqToSet(NodeAt(g, g.execution_plan_[n]).outputs) :
         n \in 1..g.next_execution_plan_index_to_prepare_}

\* the step left the delegate unapplied: the execution plan, the nodes and
\* delegates_applied_ are as they were
DelegateNotApplied ==
  /\ primary'.execution_plan_ = primary.execution_plan_
  /\ primary'.delegates_applied_ = primary.delegates_applied_
  /\ primary'.nodes_and_registration_ = primary.nodes_and_registration_

\* the graph is kStateInvokable and the arena tensors of its prepared nodes
\* have buffers
InvokableAndAllocated ==
  /\ primary'.state_ = kStateInvokable
  /\ \A t \in TensorsUpToDynamic(primary') \ {kTfLiteOptionalTensor} :
        primary'.tensors_[t].allocation_type = kTfLiteArenaRw =>
           primary'.tensors_[t].data # NullPtr

-----------------------------------------------------------------------------
(* Properties of delegation with tensor parameters (specification          *)
(* SpecParameters)                                                          *)

\* the calls that change the graph and are refused on an immutable graph
RefusedWhenImmutable ==
  {"AddNodeWithParameters", "SetTensorParametersReadOnly",
   "SetTensorParametersReadWrite", "ModifyGraphWithDelegate"}

\* the step left state_, the nodes, the execution plan, the tensors and
\* delegates_applied_ of the primary subgraph as they were
GraphUntouched ==
  /\ primary'.state_ = primary.state_
  /\ primary'.nodes_and_registration_ = primary.nodes_and_registration_
  /\ primary'.execution_plan_ = primary.execution_plan_
  /\ primary'.tensors_ = primary.tensors_
  /\ primary'.delegates_applied_ = primary.delegates_applied_

\* C36: while state_ is kStateInvokableAndImmutable, AddNodeWithParameters,
\* SetTensorParametersReadOnly, SetTensorParametersReadWrite and
\* ModifyGraphWithDelegate return an error and leave state_, the nodes, the
\* execution plan, the tensors and delegates_applied_ unchanged; so does a
\* ResizeInputTensor that changes dims when no delegate has been applied.
C36_ImmutableGraphRefusesChanges ==
  [][primary.state_ = kStateInvokableAndImmutable =>
       /\ last'.op \in RefusedWhenImmutable =>
            (last'.st # kTfLiteOk /\ GraphUntouched)
       /\ (ResizeChangesDims /\ primary.pre_delegation_execution_plan_ = <<>>) =>
            (last'.st # kTfLiteOk /\ GraphUntouched)]_vars

\* a SetTensorParametersReadOnly was refused on an immutable graph
C36_Witness ==
  /\ last.op = "SetTensorParametersReadOnly"
  /\ last.st = kTfLiteError
  /\ last.args[1] \in TensorIds
  /\ primary.state_ = kStateInvokableAndImmutable

-----------------------------------------------------------------------------
(* Properties of structural mutation (specification SpecMutation) *)

\* C13: a successful SetInputs or SetOutputs on a subgraph whose state_ is
\* kStateInvokable sets state_ to kStateUninvokable, and an Invoke made
\* after it fails until an AllocateTensors has succeeded.
C13_SetInputsOutputsMakeUninvokable ==
  [][/\ (/\ last'.op \in {"SetInputs", "SetOutputs"}
         /\ last'.st = kTfLiteOk
         /\ primary.state_ = kStateInvokable) =>
          primary'.state_ = kStateUninvokable
     /\ (last'.op = "Invoke" /\ primary.mutated) =>
          last'.st # kTfLiteOk]_vars

Mutations ==
  {"AddNodeWithParameters", "SetInputs", "SetOutputs", "SetVariables"}

\* C16: a mutation that fails a structural check is rejected (the nodes,
\* the plan, the inputs, the outputs and the variables stay as they were)
\* and marks the subgraph inconsistent; an inconsistent subgraph stays
\* inconsistent, and every later AllocateTensors, Invoke and mutation on it
\* returns an error.
C16_InconsistentFailsFast ==
  [][/\ (last'.op \in Mutations /\ last'.st # kTfLiteOk) =>
          /\ primary'.nodes_and_registration_ = primary.nodes_and_registration_
          /\ primary'.execution_plan_ = primary.execution_plan_
          /\ primary'.inputs_ = primary.inputs_
          /\ primary'.outputs_ = primary.outputs_
          /\ primary'.variables_ = primary.variables_
          /\ ~primary'.consistent_
     /\ ~primary.consistent_ =>
          /\ ~primary'.consistent_
          /\ last'.op \in Mutations \cup {"AllocateTensors", "Invoke"} =>
               last'.st # kTfLiteOk]_vars

-----------------------------------------------------------------------------
(* Properties of channel splitting (specification SpecPartitioning) *)

IsPush(ev) == ev.e = "push"

\* C20: when SetPartitioning has been applied to the subgraph, an Invoke as
\* the CPU unit pushes, right after each CONV_2D node it has invoked, one
\* SharedContext holding the CPU unit and that node's output tensor, and
\* pushes nothing else.
C20_PushAfterEachConv ==
  [][(/\ primary.use_distribute_strategy
      /\ last'.op = "Invoke"
      /\ last'.args[2] = "CPU0") =>
       LET ev == last'.events IN
       /\ \A n \in 1..Len(ev) :
            (/\ IsInvoke(ev[n]) /\ ev[n].ok
             /\ NodeAt(primary', ev[n].node).kind = KConv) =>
               /\ n < Len(ev)
               /\ IsPush(ev[n + 1])
               /\ ev[n + 1].unit = "CPU0"
               /\ ev[n + 1].tensor = NodeAt(primary', ev[n].node).outputs[1]
       /\ \A n \in 1..Len(ev) :
            IsPush(ev[n]) => n > 1 /\ IsInvoke(ev[n - 1])]_vars

-----------------------------------------------------------------------------
(* Properties of the channel-ratio rewrite (specification SpecRewrite) *)

\* the CONV_2D node and the CONCATENATION node that follows it, and the
\* tensors of theirs the rewrite changes
ConvNode == NodeAt(primary, 0)
ConcatNode == NodeAt(primary, 1)
FilterDims(g) == g.tensors_[ConvNode.inputs[2]].dims
BiasDims(g) == g.tensors_[ConvNode.inputs[3]].dims
ConcatInputDims(g) == g.tensors_[ConcatNode.inputs[2]].dims

\* the step applies the rewrite to the subgraph for the first time
FirstRewrite == primary.rewritten = <<>> /\ primary'.rewritten # <<>>

\* C28: when the rewrite is applied with ratio r in 1..9 to a convolution
\* whose filter has N >= 1 output channels, the filter and the bias get
\* ceil(N*r/10) output channels, N is recorded, the channel dimension of the
\* following concatenation's second input grows by N - ceil(N*r/10), and
\* both counts are >= 0.
C28_RatioSplit ==
  [][FirstRewrite =>
       LET N == FilterDims(primary)[1]
           r == primary.partitioning_plan
           cpu == (N * r + 9) \div 10
       IN /\ FilterDims(primary')[1] = cpu
          /\ BiasDims(primary')[1] = cpu
          /\ primary'.conv_filter_before_modification = N
          /\ ConcatInputDims(primary')[4] =
               ConcatInputDims(primary)[4] + (N - cpu)
          /\ cpu >= 0
          /\ N - cpu >= 0]_vars

\* C29: once the rewrite has been applied, the filter's dims, the bias's
\* dims and size and the dims of the concatenation's second input stay as
\* the first application left them, whatever calls follow.
C29_RewrittenOnce ==
  primary.rewritten # <<>> => SplitDims(primary) = primary.rewritten[1]

-----------------------------------------------------------------------------
(* Properties of the hand-off (specifications SpecHandoff, SpecHandoffFair) *)

\* the last step was a pop attempted on an empty queue
PopOnEmptyQueue == handoff.step.at = "pop" /\ handoff.step.queue = <<>>

Merged == handoff.step.at = "merge"

\* the context at the back of the queue wraps the tensor the GPU merged into
MergedTensorAtBack ==
  /\ handoff.qSharedData # <<>>
  /\ LET c == handoff.qSharedData[Len(handoff.qSharedData)] IN
       /\ c = Len(handoff.contexts)
       /\ handoff.contexts[c] =
            [eType |-> "GPU0",
             tensor |-> TensorOf("GPU0", handoff.idx["GPU0"] - 1)]

BothReturned ==
  \A u \in Units :
    handoff.pc[u] = "done" /\ handoff.status[u] \in {kTfLiteOk, kTfLiteError}

\* the contexts that were pushed onto the queue
Pushed ==
  {c \in 1..Len(handoff.contexts) :
     ~(handoff.pc["CPU0"] = "push" /\ c = handoff.slaveData)}

SplitsPushed == {c \in Pushed : handoff.contexts[c].eType = "CPU0"}
MergesDone ==
  {i \in 1..handoff.idx["GPU0"] : handoff.plan["GPU0"][i] = KConcat}

BufferOf(t) ==
  IF \E a \in handoff.aliased : a[1] = t
  THEN (CHOOSE a \in handoff.aliased : a[1] = t)[2]
  ELSE t

\* the buffers the kernel of unit u reads and writes while it runs; the plans
\* are chains, node i reads the output of node i - 1 and writes its own
KernelReads(u) ==
  IF handoff.pc[u] = "invoke" /\ handoff.idx[u] >= 1
  THEN {BufferOf(TensorOf(u, handoff.idx[u] - 1))}
  ELSE {}
KernelWrites(u) ==
  IF handoff.pc[u] = "invoke"
  THEN {BufferOf(TensorOf(u, handoff.idx[u]))}
  ELSE {}

\* the GPU thread is in the memcpy loop of ConcatContext
GPUCopying == handoff.pc["GPU0"] = "copy" /\ handoff.SlaveData # Garbage
CopyReads ==
  IF GPUCopying
  THEN {BufferOf(handoff.contexts[handoff.SlaveData].tensor)}
  ELSE {}
CopyWrites ==
  IF GPUCopying THEN {TensorOf("GPU0", handoff.idx["GPU0"])} ELSE {}

SameSplits ==
  /\ handoff.number_of_conv["CPU0"] = handoff.number_of_conv["GPU0"]
  /\ handoff.number_of_conv["CPU0"] >= 1
  /\ Cardinality({i \in 1..Len(handoff.plan["GPU0"]) :
                    handoff.plan["GPU0"][i] = KConcat}) =
       handoff.number_of_conv["CPU0"]

-----------------------------------------------------------------------------
(* Properties of the merge (specification SpecMerge) *)

\* the channel counts: c1 of the CPU's slice, C of the destination, c2 of
\* the GPU's part of the destination; and the number of spatial positions
SliceChannels == merge.sd_dims[Len(merge.sd_dims)]
TotalChannels == merge.rc_dims[Len(merge.rc_dims)]
GPUChannels == TotalChannels - merge.concat_tensor_filter
SpatialPositions == Product(merge.rc_dims) \div TotalChannels

\* the merge has run on a destination with C = c1 + c2 channels
MergedSplit ==
  merge.returned /\ TotalChannels = SliceChannels + GPUChannels

\* every destination element is element k of group n of the slice if it lies
\* k places after offset + n*C with k < length, and is unchanged otherwise
CopiedAt(offset, length) ==
  \A i \in DOMAIN merge.data_recieve :
    LET n == i \div TotalChannels
        k == (i % TotalChannels) - offset
    IN IF k \in 0..(length - 1)
       THEN k < SliceChannels =>
              merge.data_recieve[i] = merge.data_send[n * SliceChannels + k]
       ELSE merge.data_recieve[i] = merge.before[i]

\* C22 as stated: the n-th group of the CPU's slice goes to the destination
\* elements [c1 + n*C, c1 + n*C + c2), one copy per spatial position, and
\* every other destination element keeps its value.
C22_AsClaimed ==
  MergedSplit =>
    /\ merge.copies = SpatialPositions
    /\ CopiedAt(SliceChannels, GPUChannels)

\* C22: with c1 the channel count of the CPU's slice, c2 that of the GPU's
\* part and C = c1 + c2 that of the destination, the merge makes one copy per
\* spatial position n, of the c1 elements of the slice's n-th group to the
\* destination elements [c2 + n*C, c2 + n*C + c1); every other destination
\* element keeps its value and nothing is written outside the destination.
C22_MergeCopiesSlice ==
  MergedSplit =>
    /\ merge.copies = SpatialPositions
    /\ CopiedAt(GPUChannels, SliceChannels)
    /\ ~merge.overrun

\* a merge over several positions with different channel counts on the two
\* sides has run
C22_Witness ==
  /\ MergedSplit
  /\ SpatialPositions >= 2
  /\ SliceChannels # GPUChannels

-----------------------------------------------------------------------------
(* Properties of the split convolution (specification SpecSplit) *)

\* the channels the GPU-side rewrite added to the concatenation's second
\* input
AddedChannels ==
  ConcatSecondInputChannels(subgraphs_[GPUSide]) -
    ConcatSecondInputChannels(
      SplitSubgraph(subgraphs_[GPUSide].conv_filter_before_modification))

\* C35: at a merge of a split convolution, for every filter count N and
\* complementary ratios (GPU r, CPU 10 - r), the CPU slice has as many
\* channels as the GPU-side rewrite added to the concatenation's second
\* input, and every copy stays inside one spatial position's channels: start
\* offset + slice channels <= total channels, nothing written past the
\* buffer.
C35_SliceMatchesRewrite ==
  (merge # NoMerge /\ merge.returned) =>
    /\ SliceChannels = AddedChannels
    /\ GPUChannels + SliceChannels <= TotalChannels
    /\ ~merge.overrun

-----------------------------------------------------------------------------
(* Properties of the interpreter (specification SpecInterp) *)

\* the last call was Interpreter::Invoke for the GPU unit
GPUWalk == last.op = "Interpreter::Invoke" /\ last.inner = "GPU0"

NoFirstOpAdd ==
  \A i \in SubgraphIds : GetFirstOpName(subgraphs_[i]) # "ADD"

IsEvent(ev, e, i) == ev.e = e /\ ev.i = i

\* positions of the history of the last call that hold event e of subgraph i
Positions(e, i) == {n \in 1..Len(last.walk) : IsEvent(last.walk[n], e, i)}

\* what the claim says of one connect step: with equal sizes it returns Ok,
\* the destination's input tensor holds the contents of the source's first
\* output and the pair is appended to the used list; with different sizes it
\* returns kTfLiteError and the destination and the used list are unchanged
ConnectAsClaimed(ev) ==
  LET source_tensor_idx == ev.src.g.outputs_[1]
      dest_tensor_idx == GetInputsInMultipleSubgraphs(ev.pre.g)
  IN IF ev.src.g.tensors_[source_tensor_idx].bytes =
          ev.pre.g.tensors_[dest_tensor_idx].bytes
     THEN /\ ev.st = kTfLiteOk
          /\ ev.snap.own[dest_tensor_idx] = ev.src.own[source_tensor_idx]
          /\ ev.snap.g = ev.pre.g
          /\ ev.used = Append(ev.used0, [idx |-> source_tensor_idx,
                                         sg |-> ev.i - 1])
     ELSE /\ ev.st = kTfLiteError
          /\ ev.snap = ev.pre
          /\ ev.used = ev.used0

\* C6: every connect(source, dest) of an Interpreter::Invoke copies the
\* source's first output into the destination's input tensor and records the
\* pair as used if and only if the two tensors have the same byte size; with
\* different sizes it returns an error, changes no byte of the destination
\* and records nothing.
C6_ConnectCopiesIffSizesMatch ==
  GPUWalk =>
    \A n \in 1..Len(last.walk) :
       last.walk[n].e = "connect" => ConnectAsClaimed(last.walk[n])

\* C7: no tensor record of a subgraph has its data pointer on a buffer owned
\* by a tensor of another subgraph: the bridge copies bytes into the
\* destination's own buffer and never makes two subgraphs share one.
C7_NoSharedBuffers ==
  \A s \in DOMAIN subgraphs_ : \A t \in TensorIds :
     subgraphs_[s].tensors_[t].data # NullPtr
       => subgraphs_[s].tensors_[t].data[1] = s

\* C1: in Interpreter::Invoke for the GPU unit over subgraphs none of which
\* starts with ADD, for every i >= 1: connect(i-1, i) runs at most once, it
\* runs exactly when subgraph i-1's Invoke has returned Ok and directly after
\* it, and subgraph i's Invoke runs only directly after a connect(i-1, i)
\* that returned Ok; a walk that returns Ok made every copy exactly once.
C1_BridgeBarrier ==
  (GPUWalk /\ NoFirstOpAdd) =>
    /\ \A i \in 1..(NumSubgraphs - 1) :
         /\ Cardinality(Positions("connect", i)) <= 1
         /\ Positions("connectAdd", i) = {}
         /\ (Positions("connect", i) # {}) <=>
              (\E n \in Positions("Invoke", i - 1) :
                  last.walk[n].st = kTfLiteOk)
         /\ \A n \in Positions("connect", i) :
              /\ n > 1
              /\ IsEvent(last.walk[n - 1], "Invoke", i - 1)
              /\ last.walk[n - 1].st = kTfLiteOk
         /\ \A n \in Positions("Invoke", i) :
              /\ n > 1
              /\ IsEvent(last.walk[n - 1], "connect", i)
              /\ last.walk[n - 1].st = kTfLiteOk
         /\ (last.st = kTfLiteOk =>
               Cardinality(Positions("connect", i)) = 1)
    /\ \A i \in SubgraphIds : Cardinality(Positions("Invoke", i)) <= 1

\* a GPU walk over NumSubgraphs subgraphs without ADD has returned Ok, every
\* subgraph invoked and every bridge copy made
C1_Witness ==
  /\ GPUWalk
  /\ NoFirstOpAdd
  /\ last.st = kTfLiteOk
  /\ Len(last.walk) = 2 * NumSubgraphs - 1
  /\ \A i \in 1..(NumSubgraphs - 1) : Positions("connect", i) # {}

IsBridge(ev) == ev.e \in {"connect", "connectAdd"}

\* the event is a bridge step or a subgraph invocation that failed
Failed(ev) ==
  \/ IsBridge(ev) /\ ev.st = kTfLiteError
  \/ ev.e = "Invoke" /\ ev.st \notin {kTfLiteOk, Crashed}

\* C8: in Interpreter::Invoke for the GPU unit a failed bridge step
\* (connect or connectAdd returning kTfLiteError) or a failed subgraph Invoke
\* is the last thing the call does and the call returns kTfLiteError: no
\* subgraph is invoked after it (the subgraph whose bridge step failed is
\* not invoked at all); and when the call returns an error every subgraph
\* whose Invoke had returned Ok still has the tensors and buffer contents it
\* had when its Invoke returned.
C8_AbortOnFailure ==
  GPUWalk =>
    /\ \A n \in 1..Len(last.walk) :
         Failed(last.walk[n]) => (n = Len(last.walk) /\ last.st = kTfLiteError)
    /\ last.st = kTfLiteError =>
         /\ last.walk # <<>>
         /\ Failed(last.walk[Len(last.walk)])
         /\ \A n \in 1..Len(last.walk) :
              last.walk[n].i <= last.walk[Len(last.walk)].i
         /\ \A n \in 1..Len(last.walk) :
              (last.walk[n].e = "Invoke" /\ last.walk[n].st = kTfLiteOk)
                => Snapshot(subgraphs_[last.walk[n].i], heap) = last.walk[n].snap

\* a walk has stopped at a failed connect(1, 2) after subgraphs 0 and 1 were
\* invoked, and has returned kTfLiteError
C8_Witness ==
  /\ GPUWalk
  /\ last.st = kTfLiteError
  /\ Len(last.walk) = 4
  /\ IsEvent(last.walk[4], "connect", 2)
  /\ last.walk[4].st = kTfLiteError
  /\ last.walk[3].st = kTfLiteOk

\* the same node sequence as one subgraph: the first node of every subgraph
\* of S in turn, over tensors of the dims of the model's input
RECURSIVE UndividedNodes(_, _, _)
UndividedNodes(g, S, i) ==
  IF i >= subgraphs_size(S) THEN g
  ELSE LET node == NodeAt(S[i], 0)
       IN UndividedNodes(AddNodeWithParameters(g, node.inputs, node.outputs,
                                               TRUE, node.kind).g,
                         S, i + 1)

\* the undivided run: the primary subgraph holds every node, is allocated
\* and is invoked once on the contents of the model's input
Undivided(S, h) ==
  LET g == UndividedNodes(NewSubgraph(0, S[0].inputs_,
                                      S[subgraphs_size(S) - 1].outputs_,
                                      S[0].tensors_[S[0].inputs_[1]].dims),
                          S, 0)
      h0 == [x \in BufferIds |->
               IF x = Buf(0, S[0].inputs_[1]) THEN h[x] ELSE 0]
  IN Only({IF a.st # kTfLiteOk THEN RH(a.g, h0, a.st)
           ELSE Invoke(a.g, h0, NoCancellation, "CPU0") :
           a \in {AllocateTensors(g)}})

\* the contents of the first output tensor of subgraph g
OutputBytes(g, h) ==
  IF g.tensors_[g.outputs_[1]].data = NullPtr THEN nullptr
  ELSE h[g.tensors_[g.outputs_[1]].data]

\* adjacent output and input tensors have equal byte size
EqualByteSizes(S) ==
  \A i \in 1..(subgraphs_size(S) - 1) :
     S[i - 1].tensors_[S[i - 1].outputs_[1]].bytes =
       S[i].tensors_[GetInputsInMultipleSubgraphs(S[i])].bytes

\* every subgraph was allocated by AllocateTensors, holds no delegate kernel
\* and is ready to be invoked
ReadyToInvoke(S) ==
  \A i \in DOMAIN S :
     /\ S[i].state_ = kStateInvokable
     /\ S[i].delegates_applied_ = <<>>
     /\ S[i].consistent_
     /\ LET node == NodeAt(S[i], 0)
        IN /\ \A k \in 1..Len(node.inputs) :
                S[i].tensors_[node.inputs[k]].data = Buf(i, node.inputs[k])
           /\ \A k \in 1..Len(node.outputs) :
                S[i].tensors_[node.outputs[k]].data = Buf(i, node.outputs[k])

\* C30: an Interpreter::Invoke for the GPU unit over three allocated
\* subgraphs whose adjacent output and input tensors have equal byte size,
\* where the undivided run of the same nodes on the same input returns Ok,
\* returns Ok and leaves in the last subgraph's output tensor the contents the
\* undivided run leaves in its output.
C30_DividedEqualsUndivided ==
  [][(/\ last'.op = "Interpreter::Invoke"
      /\ last'.inner = "GPU0"
      /\ ReadyToInvoke(subgraphs_)
      /\ EqualByteSizes(subgraphs_)
      /\ Undivided(subgraphs_, heap).st = kTfLiteOk)
       => LET u == Undivided(subgraphs_, heap)
              final == subgraphs_size(subgraphs_) - 1
          IN /\ last'.st = kTfLiteOk
             /\ OutputBytes(subgraphs_'[final], heap') = OutputBytes(u.g, u.h)
    ]_vars



IsInvokeEvent(ev) == ev.e = "Invoke"

\* the subgraphs invoked by the last Interpreter::Invoke, in the order of
\* their invocation, and the statuses they returned
RECURSIVE InvokedOf(_)
InvokedOf(walk) ==
  IF walk = <<>> THEN <<>>
  ELSE IF IsInvokeEvent(walk[1]) THEN <<walk[1].i>> \o InvokedOf(Tail(walk))
  ELSE InvokedOf(Tail(walk))

Invoked == InvokedOf(last.walk)

InvokeStatuses == {ev.st : ev \in {last.walk[n] : n \in
                                     {m \in 1..Len(last.walk) :
                                        IsInvokeEvent(last.walk[m])}}}

InterpreterInvoked == last.op = "Interpreter::Invoke"

\* what C32 says of either unit: the subgraphs invoked are 0, 1, ... in
\* increasing order, each once, and Ok is returned only when all
\* NumSubgraphs of them were invoked and returned Ok
C32_AsClaimed ==
  InterpreterInvoked =>
    /\ \E k \in 0..NumSubgraphs : Invoked = [n \in 1..k |-> n - 1]
    /\ last.st = kTfLiteOk =>
         /\ Invoked = [n \in 1..NumSubgraphs |-> n - 1]
         /\ InvokeStatuses = {kTfLiteOk}

\* C32 (amended): Interpreter::Invoke for the GPU unit invokes the subgraphs
\* 0, 1, ... in increasing index order, each at most once, and returns Ok
\* only when every subgraph up to the last was invoked and returned Ok; for
\* the CPU unit it invokes subgraph 0 alone, once, and returns the status of
\* that invocation.
C32_WalkInOrder ==
  InterpreterInvoked =>
    IF last.inner = "GPU0"
    THEN /\ \E k \in 0..NumSubgraphs : Invoked = [n \in 1..k |-> n - 1]
         /\ last.st = kTfLiteOk =>
              /\ Invoked = [n \in 1..NumSubgraphs |-> n - 1]
              /\ InvokeStatuses = {kTfLiteOk}
    ELSE /\ Invoked = <<0>>
         /\ InvokeStatuses = {last.st}

\* the CPU unit was named on an interpreter of several subgraphs and the
\* call returned Ok
C32_Witness ==
  /\ InterpreterInvoked
  /\ last.inner = "CPU0"
  /\ last.st = kTfLiteOk
  /\ NumSubgraphs > 1
  /\ Invoked = <<0>>

\* the destination's first node has fewer than two inputs or fewer than two
\* used tensors were recorded when connectAdd was called
InsufficientOperands(ev) ==
  \/ Len(GetMultipleInputTensorIdx(ev.pre.g)) < 2
  \/ Len(ev.used0) < 2

\* C33: a connectAdd called with fewer than two inputs of the destination's
\* first node or fewer than two used tensors returns kTfLiteError, changes
\* neither the destination subgraph nor its buffers nor the used list, and is
\* the last step of the Interpreter::Invoke, which returns kTfLiteError
\* without invoking the destination subgraph.
C33_ConnectAddInsufficient ==
  GPUWalk =>
    \A n \in 1..Len(last.walk) :
       (last.walk[n].e = "connectAdd" /\ InsufficientOperands(last.walk[n]))
         => /\ last.walk[n].st = kTfLiteError
            /\ last.walk[n].snap = last.walk[n].pre
            /\ last.walk[n].used = last.walk[n].used0
            /\ n = Len(last.walk)
            /\ last.st = kTfLiteError
            /\ Positions("Invoke", last.walk[n].i) = {}

\* a walk has stopped at connectAdd(2) with one used tensor recorded, after
\* subgraphs 0 and 1 were invoked
C33_Witness ==
  /\ GPUWalk
  /\ last.st = kTfLiteError
  /\ Len(last.walk) = 4
  /\ IsEvent(last.walk[4], "connectAdd", 2)
  /\ Len(last.walk[4].used0) = 1
  /\ last.walk[4].st = kTfLiteError

\* s is an initial segment of t
IsPrefix(s, t) == Len(s) <= Len(t) /\ SubSeq(t, 1, Len(s)) = s

IsBridgeEvent(ev) == ev.e \in {"connect", "connectAdd"}

\* the entries of the used list whose index is the tensor x
Matching(used, x) == {j \in 1..Len(used) : used[j].idx = x}

\* the bridge step ev left the used list as it found it, or, a connect that
\* returned kTfLiteOk, with one entry more for the source's output
GrewByOne(ev) ==
  IF ev.e = "connect" /\ ev.st = kTfLiteOk
  THEN ev.used = Append(ev.used0, [idx |-> ev.src.g.outputs_[1],
                                   sg |-> ev.i - 1])
  ELSE ev.used = ev.used0

\* a connectAdd that returned kTfLiteOk went through every entry recorded for
\* an input of the destination's first node: each of them points to a tensor
\* with a buffer, and the destination's input is left as the tensor of the
\* last of them
CopiedFromEveryMatch(ev) ==
  \A x \in SeqToSet(GetMultipleInputTensorIdx(ev.pre.g)) :
     LET M == Matching(ev.used0, x) IN
     M # {} =>
       /\ \A j \in M : ev.srcs[j].data # NullPtr
       /\ ev.snap.g.tensors_[x] =
            ev.srcs[CHOOSE j \in M : \A k \in M : k <= j]

\* C39: the used list only grows.  Every step leaves the old list as an
\* initial segment of the new one; in an Interpreter::Invoke each connect
\* that returned kTfLiteOk appended exactly one entry and no other step of
\* the call changed the list, so a GPU call that returned kTfLiteOk over
\* subgraphs none of which starts with ADD made the list longer by the
\* number of subgraphs less one; a connectAdd that returned kTfLiteOk went
\* through every recorded entry whose index is an input of the destination,
\* the entries of earlier calls included.
C39_UsedListOnlyGrows ==
  [][/\ IsPrefix(used_tensor_and_index, used_tensor_and_index')
     /\ (last'.op = "Interpreter::Invoke" /\ last'.inner = "GPU0") =>
          LET bridge == SelectSeq(last'.walk, IsBridgeEvent) IN
          /\ \A n \in 1..Len(bridge) :
                /\ GrewByOne(bridge[n])
                /\ bridge[n].used0 = IF n = 1 THEN used_tensor_and_index
                                     ELSE bridge[n - 1].used
                /\ (bridge[n].e = "connectAdd" /\ bridge[n].st = kTfLiteOk)
                     => CopiedFromEveryMatch(bridge[n])
          /\ used_tensor_and_index' =
                IF bridge = <<>> THEN used_tensor_and_index
                ELSE bridge[Len(bridge)].used
          /\ (last'.st = kTfLiteOk /\ NoFirstOpAdd) =>
                Len(used_tensor_and_index') =
                   Len(used_tensor_and_index) + subgraphs_size(subgraphs_) - 1]_vars

\* a second complete GPU call has left the used list with two entries for
\* each bridge of the plan
C39_Witness ==
  /\ GPUWalk
  /\ last.st = kTfLiteOk
  /\ NoFirstOpAdd
  /\ Len(used_tensor_and_index) = 2 * (subgraphs_size(subgraphs_) - 1)

-----------------------------------------------------------------------------
(* Properties of the Worker (specification SpecWorker) *)

\* the step is Work going past the statement on the job's state
PassesJobState == worker.pc = "state" /\ worker'.pc = "unlock"

\* C40: when Work has invoked a subgraph of a job of the Worker's own
\* resource type, it sets the job's state to DONE, holding the interpreter's
\* job lock, before it goes on; a job of another resource type is never
\* invoked and its state does not change.
C40_JobDoneAfterInvocation ==
  [][/\ PassesJobState =>
          /\ worker.jobs_locked
          /\ worker'.jobs[worker.i + 1].state = DONE
     /\ \A n \in worker'.invoked :
          worker'.jobs[n].resource_type = worker'.type
     /\ \A n \in 1..Len(worker.jobs) :
          worker.jobs[n].resource_type # worker.type =>
             worker'.jobs[n] = worker.jobs[n]]_vars

-----------------------------------------------------------------------------
(* Properties of the allocation of all subgraphs (specification            *)
(* SpecAllocateAll)                                                        *)

AllocatedAll == last.op = "AllocateTensorsofAllSubgraphsAndFixShape"

\* the shared tensor of entry e has, in every subgraph listed, the dims it
\* has in the first subgraph listed
SameShape(e) ==
  \A j \in 1..Len(e.second) :
     subgraphs_[e.second[j]].tensors_[e.first].dims =
       subgraphs_[e.second[1]].tensors_[e.first].dims

InterpDelegateFailed ==
  /\ last'.op = "Interpreter::ModifyGraphWithDelegate"
  /\ last'.inner = kTfLiteDelegateError

HoldsNoDelegate(g) ==
  /\ g.delegates_applied_ = <<>>
  /\ \A n \in 1..Len(g.nodes_and_registration_) :
        g.nodes_and_registration_[n].kind # KDelegate

\* after the call subgraph i holds no delegate and has the plan and the
\* nodes it had before the call
RolledBack(i) ==
  /\ HoldsNoDelegate(subgraphs_'[i])
  /\ subgraphs_'[i].execution_plan_ = subgraphs_[i].execution_plan_
  /\ subgraphs_'[i].nodes_and_registration_ =
       subgraphs_[i].nodes_and_registration_

=============================================================================
